---------------------------- MODULE Spec2Model ----------------------------
(***************************************************************************)
(* Model of cfanbo/solana-mev-test: the bundle submission module           *)
(* (src/src/jito.rs), the streaming engine (src/src/engine.rs) and the     *)
(* AMM instruction decoder (src/src/ex/raydium.rs).                        *)
(***************************************************************************)
EXTENDS Integers, Sequences, FiniteSets, TLC

(***************************************************************************)
(* serde_json::Value.  A value is a record tagged by t; an object carries  *)
(* a function from its keys to values, an array a sequence of values.      *)
(***************************************************************************)
JNull == [t |-> "null"]

JStr(s) == [t |-> "str", s |-> s]

JNum(n) == [t |-> "num", n |-> n]

JArr(a) == [t |-> "arr", a |-> a]

JObj(o) == [t |-> "obj", o |-> o]

JEmptyObj == [t |-> "obj", o |-> [k \in {} |-> JNull]]

\* Option<T>: None is the empty sequence, Some(v) the one-element sequence.
None == << >>

Some(v) == << v >>

\* Value::get(&str): Some(member) of an object that has the key, else None.
JGet(v, k) == IF v.t = "obj" /\ k \in DOMAIN v.o THEN Some(v.o[k]) ELSE None

\* Value::as_str.
JAsStr(v) == IF v.t = "str" THEN Some(v.s) ELSE None

\* Index<&str> for Value: Null unless an object holding the key.
JIndex(v, k) == IF v.t = "obj" /\ k \in DOMAIN v.o THEN v.o[k] ELSE JNull


(***************************************************************************)
(* State.  j*: one call of jito_request (src/src/jito.rs).                 *)
(***************************************************************************)
VARIABLES
    jpc,             \* "enter" before the call, then the await point of
                     \* jito_request: "tip", "send", "inflight",
                     \* "inflight_sleep", "final", "final_sleep", "done"
    jresult,         \* value returned by jito_request: "" while running, "Ok", or the error
    bundle_uuid,     \* Option<&str>: the id extracted from the sendBundle response
    jbundle,         \* the transaction list handed to send_bundle
    inflight_polls,  \* get_in_flight_bundle_statuses calls made
    final_polls,     \* get_bundle_statuses calls made
    inflight_sleeps, \* sleep(retry_delay) calls made by the phase-1 loop
    final_sleeps,    \* sleep(retry_delay) calls made by the phase-2 loop
    jlast,           \* Option<reply>: the reply the last relay call returned
    jlog,            \* Option: the line print_transaction_url printed
    jblockhash,      \* the recent_blockhash argument of jito_request
    jbuilt           \* the transactions jito_request has built and signed

jvars == << jpc, jresult, bundle_uuid, jbundle, inflight_polls, final_polls,
            inflight_sleeps, final_sleeps, jlast, jlog, jblockhash, jbuilt >>

(***************************************************************************)
(* State.  One run of Engine::run (src/src/engine.rs) and the process      *)
(* environment it reads.                                                   *)
(***************************************************************************)
VARIABLES
    epc,              \* "new" before Engine::new, "run" before Engine::run, then
                      \* the await point of run: "connect", "blockhash", "subscribe",
                      \* "stream", "tip", "send", "iter_end" (end of the loop body), "done"
    eresult,          \* "" while running, "Ok" or the error run returned, "panic"
    recent_blockhash, \* Option: the blockhash fetched by run
    sender,           \* Option: the path the signer keypair was read from
    cur,              \* Option: the stream item the loop body is processing
    allow,            \* Option: what allow_sniper returned for cur
    etransfer,        \* Option: serialized_transfer_tx of send_bundle
    ebundle,          \* the transaction list send_bundle handed to the relay
    bundle_result,    \* "" or what send_bundle returned for cur: "Ok" or the error
    relay_calls,      \* relay methods called while processing cur, in order
    updates,          \* stream items consumed
    bundle_errors,    \* "Error sending bundle" lines printed
    elast,            \* Option: the reply the engine's last relay call returned
    env,              \* process environment: a function from the set names to values
    home,             \* Option: dirs::home_dir()
    files,            \* paths holding a readable keypair file
    KEYPAIR_FILE      \* the Lazy cell of constants::KEYPAIR_FILE: None until resolved

evars == << epc, eresult, recent_blockhash, sender, cur, allow, etransfer, ebundle,
            bundle_result, relay_calls, updates, bundle_errors, elast >>

wvars == << env, home, files, KEYPAIR_FILE >>

(***************************************************************************)
(* State.  One call of an instruction decoder (src/src/ex/raydium.rs,      *)
(* src/src/ex/pumpfun.rs).                                                 *)
(***************************************************************************)
VARIABLES
    dpc,              \* "idle", or the decoder that was called: "amm", "migrate", "pumpfun"
    din,              \* Option: the instruction handed to the decoder
    dout              \* Option: what the decoder returned

dvars == << dpc, din, dout >>

(***************************************************************************)
(* State.  The configuration cells (src/src/constants.rs) and the calls    *)
(* that read them.                                                         *)
(***************************************************************************)
VARIABLES
    GRPC_ENDPOINT,     \* the Lazy cell of constants::GRPC_ENDPOINT: None until resolved
    JITO_RPC_ENDPOINT, \* the Lazy cell of constants::JITO_RPC_ENDPOINT
    cpc,               \* "running", or "panic" once a call has aborted the process
    cout,              \* Option: the last call made, the environment it ran in and
                       \* what it returned
    env_changes        \* changes made to the environment so far

cvars == << GRPC_ENDPOINT, JITO_RPC_ENDPOINT, cpc, cout, env_changes >>

(***************************************************************************)
(* State.  The diagnostics routine lock() (src/src/common.rs).             *)
(***************************************************************************)
VARIABLES
    lpc,      \* position of the thread running lock(): "spawn", "join", "print", "done"
    spawned,  \* worker threads spawned so far
    joined,   \* handles joined so far
    wpc,      \* each worker: "none" (not spawned), "start", "locked", "loaded",
              \* "stored", "done"
    owner,    \* the worker holding the mutex, 0 when no thread holds it
    counter,  \* the integer inside the mutex
    wnum,     \* each worker: the value it read for `*num += 1` (0 outside the closure)
    lprinted  \* Option: the value printed

lvars == << lpc, spawned, joined, wpc, owner, counter, wnum, lprinted >>

vars == << jvars, evars, wvars, dvars, cvars, lvars >>

(***************************************************************************)
(* Relay replies.  A call of the JSON-RPC client returns Result<Value>:    *)
(* ok = FALSE is a transport-level failure (the `?` after `.await`).       *)
(***************************************************************************)
RpcOk(v) == [ok |-> TRUE, v |-> v]

RpcErr == [ok |-> FALSE, v |-> JNull]

\* {"result": {"value": [record]}}
StatusDoc(record) == JObj([result |-> JObj([value |-> JArr(<< record >>)])])

InFlightDocs ==
    { StatusDoc(JObj([status |-> JStr("Landed")])),
      StatusDoc(JObj([status |-> JStr("Pending")])),
      StatusDoc(JObj([status |-> JStr("Failed")])),
      StatusDoc(JObj([status |-> JStr("landed")])),
      StatusDoc(JObj([status |-> JNum(1)])),
      StatusDoc(JObj([status |-> JNull])),
      StatusDoc(JEmptyObj),
      StatusDoc(JStr("Landed")),
      JObj([result |-> JObj([value |-> JArr(<< >>)])]),
      JObj([result |-> JObj([value |-> JNull])]),
      JObj([result |-> JEmptyObj]),
      JObj([result |-> JStr("Landed")]),
      JObj([error |-> JObj([message |-> JStr("bundle not found")])]),
      JObj([result |-> JObj([value |-> JArr(<< JObj([status |-> JStr("Landed")]) >>)]),
            error |-> JStr("rate limited")]),
      JObj([result |-> JNull, error |-> JStr("rate limited")]),
      JEmptyObj,
      JNull }

InFlightReplies == { RpcOk(d) : d \in InFlightDocs } \cup { RpcErr }

FinalRecords ==
    { JObj([confirmation_status |-> JStr("confirmed")]),
      JObj([confirmation_status |-> JStr("confirmed"), err |-> JObj([Ok |-> JNull]),
            transactions |-> JArr(<< JStr("sigA"), JStr("sigB") >>)]),
      JObj([confirmation_status |-> JStr("confirmed"), err |-> JNull]),
      JObj([confirmation_status |-> JStr("confirmed"),
            err |-> JObj([Ok |-> JStr("InstructionError")])]),
      JObj([confirmation_status |-> JStr("confirmed"),
            err |-> JObj([Err |-> JStr("InstructionError")])]),
      JObj([confirmation_status |-> JStr("finalized"), err |-> JObj([Ok |-> JNull]),
            transactions |-> JArr(<< JStr("sigA"), JStr("sigB") >>)]),
      JObj([confirmation_status |-> JStr("finalized")]),
      JObj([confirmation_status |-> JStr("finalized"), err |-> JObj([Ok |-> JNum(1)]),
            transactions |-> JArr(<< JStr("sigA") >>)]),
      JObj([confirmation_status |-> JStr("finalized"), transactions |-> JArr(<< >>)]),
      JObj([confirmation_status |-> JStr("finalized"),
            transactions |-> JArr(<< JNum(1), JStr("sigB") >>)]),
      JObj([confirmation_status |-> JStr("finalized"), err |-> JStr("failed"),
            transactions |-> JStr("sigA")]),
      JObj([confirmation_status |-> JStr("processed")]),
      JObj([confirmation_status |-> JStr("Finalized")]),
      JObj([confirmation_status |-> JNull, err |-> JObj([Ok |-> JNum(1)])]),
      JEmptyObj }

FinalDocs ==
    { StatusDoc(r) : r \in FinalRecords }
    \cup { JObj([result |-> JObj([value |-> JArr(<< >>)])]),
           JObj([result |-> JObj([value |-> JNull])]),
           JObj([error |-> JObj([message |-> JStr("bundle not found")])]) }

FinalReplies == { RpcOk(d) : d \in FinalDocs } \cup { RpcErr }

\* sendBundle responses: the bundle id is the string at "result".
SendBundleReplies ==
    { RpcOk(d) : d \in { JObj([result |-> JStr("uuid-1")]),
                         JObj([result |-> JNull]),
                         JObj([result |-> JNum(1)]),
                         JObj([error |-> JObj([message |-> JStr("bundle rejected")])]),
                         JEmptyObj } }
    \cup { RpcErr }

(***************************************************************************)
(* get_random_tip_account returns Result<String>.  A tip-account string is *)
(* described by what Pubkey::from_str reads of it: its length in           *)
(* characters, whether it is base58 text and the length it decodes to.     *)
(***************************************************************************)
TipAccountStrings ==
    { [name |-> "96gYZGLnJYVFmbjzopPSU6QiEV5fGqZNyN9nmNhvrZU5",
       chars |-> 44, base58 |-> TRUE, bytes |-> 32],
      [name |-> "HFqU5x63VTqvQss8hp11i4wVV8bD44PvwucfZ2bU7gRe",
       chars |-> 44, base58 |-> TRUE, bytes |-> 32],
      [name |-> "", chars |-> 0, base58 |-> TRUE, bytes |-> 0],
      [name |-> "0OIl", chars |-> 4, base58 |-> FALSE, bytes |-> 0],
      [name |-> "LBUZKhRxPF3XUpBCjp4YzTKgLccjZhTSDM9YuVaPwxo1111",
       chars |-> 47, base58 |-> TRUE, bytes |-> 35] }

TipAccountReplies ==
    { [ok |-> TRUE, s |-> a] : a \in TipAccountStrings }
    \cup { [ok |-> FALSE, s |-> [name |-> "", chars |-> 0, base58 |-> TRUE, bytes |-> 0]] }

\* Pubkey::from_str: at most 44 characters of base58 decoding to 32 bytes.
Pubkey_from_str(s) == s.chars <= 44 /\ s.base58 /\ s.bytes = 32

Blockhashes == { "hashA", "hashB" }

\* system_instruction::transfer in a transaction signed against a blockhash.
Transfer(to, lamports, blockhash) ==
    [instructions |-> << [program |-> "system", to |-> to, lamports |-> lamports] >>,
     blockhash |-> blockhash]

\* Value::as_array.
JAsArray(v) == IF v.t = "arr" THEN Some(v.a) ELSE None

\* Vec::get(i), i counted from 0.
VecGet(a, i) == IF i + 1 <= Len(a) THEN Some(a[i + 1]) ELSE None

(***************************************************************************)
(* The configuration cells (src/src/constants.rs): each is resolved from   *)
(* the environment by its first access and keeps that value.               *)
(***************************************************************************)
\* std::env::var(name): Some(value) when the variable is set.
env_var(e, name) == IF name \in DOMAIN e THEN Some(e[name]) ELSE None

\* The initialiser of each configuration value: the variable it reads and
\* the value it falls back to (None: it unwraps the failed read).
ConfigCells ==
    [ name \in { "GRPC_ENDPOINT", "JITO_RPC_ENDPOINT", "KEYPAIR_FILE" } |->
        CASE name = "GRPC_ENDPOINT" ->
                 Some("https://solana-testnet-yellowstone-grpc.publicnode.com:443")
          [] name = "JITO_RPC_ENDPOINT" ->
                 Some("https://ny.testnet.block-engine.jito.wtf/api/v1")
          [] name = "KEYPAIR_FILE" -> None ]

\* A Lazy that resolves again on every access.
Lazy_force_uncached(cell, e, name) ==
    IF env_var(e, name) # None THEN env_var(e, name) ELSE ConfigCells[name]

\* Lazy::force: the cell after the access; None when the initialiser panicked.
Lazy_force(cell, e, name) ==
    IF cell # None THEN cell
    ELSE IF env_var(e, name) # None THEN env_var(e, name)
    ELSE ConfigCells[name]

(***************************************************************************)
(* jito_request, phase 1 and phase 2 (src/src/jito.rs).                    *)
(***************************************************************************)
max_retries == 30

max_retries_final == 30

TransportError == "Request error"

\* A loop bound written 1..max_retries, which leaves the last attempt out.
retry_range_exclusive(max) == 1 .. (max - 1)

\* for attempt in 1..=max_retries
retry_range(max) == 1 .. max

\* A delay taken after every attempt that did not return, the last included.
sleeps_after_every_attempt(attempt, max) == TRUE

\* if attempt < max_retries { sleep(Duration::from_secs(2)).await; }
sleeps_after(attempt, max) == attempt < max

\* The branch of the nested if-let of jito_request taken for one in-flight
\* status response, named by the line it prints ("Landed" returns into phase 2).
in_flight_branch(status_response) ==
    LET result == JGet(status_response, "result") IN
    IF result # None
    THEN LET value == JGet(result[1], "value") IN
         IF value # None
         THEN LET statuses == JAsArray(value[1]) IN
              IF statuses # None
              THEN LET bundle_status == VecGet(statuses[1], 0) IN
                   IF bundle_status # None
                   THEN LET status == JGet(bundle_status[1], "status") IN
                        IF status # None
                        THEN LET str == JAsStr(status[1]) IN
                             IF str = Some("Landed") THEN "Landed"
                             ELSE IF str = Some("Pending") THEN "Bundle is pending"
                             ELSE IF str # None THEN "Unexpected bundle status"
                             ELSE "Unable to parse bundle status"
                        ELSE "Status field not found in bundle status"
                   ELSE "Bundle status not found"
              ELSE "Unexpected value format"
         ELSE "Value field not found in result"
    ELSE IF JGet(status_response, "error") # None THEN "Error checking bundle status"
    ELSE "Unexpected response format"

\* filter_map(|v| v.as_str()) over the members of an array.
RECURSIVE StrMembers(_)
StrMembers(a) ==
    IF a = << >> THEN << >>
    ELSE (IF Head(a).t = "str" THEN << Head(a).s >> ELSE << >>) \o StrMembers(Tail(a))

\* get_bundle_status: Result<BundleStatus> read off result.value[0].
get_bundle_status(status_response) ==
    LET result == JGet(status_response, "result")
        value == IF result = None THEN None ELSE JGet(result[1], "value")
        statuses == IF value = None THEN None ELSE JAsArray(value[1])
        first == IF statuses = None THEN None ELSE VecGet(statuses[1], 0)
    IN  IF first = None
        THEN [ok |-> FALSE, error |-> "Failed to parse bundle status",
              confirmation_status |-> None, err |-> None, transactions |-> None]
        ELSE LET bundle_status == first[1]
                 cs == JGet(bundle_status, "confirmation_status")
                 txs == JGet(bundle_status, "transactions")
                 arr == IF txs = None THEN None ELSE JAsArray(txs[1])
             IN  [ok |-> TRUE, error |-> "",
                  confirmation_status |-> IF cs = None THEN None ELSE JAsStr(cs[1]),
                  err |-> JGet(bundle_status, "err"),
                  transactions |-> IF arr = None THEN None ELSE Some(StrMembers(arr[1]))]

\* An error check that takes every non-null err value for an error.
check_transaction_error_any_err(bundle_status) ==
    IF bundle_status.err # None THEN bundle_status.err[1] = JNull ELSE TRUE

\* An error check that reads the Err sub-field instead of Ok.
check_transaction_error_wrong_key(bundle_status) ==
    IF bundle_status.err # None
    THEN JIndex(bundle_status.err[1], "Err") = JNull
    ELSE TRUE

\* check_transaction_error: TRUE is Ok(()), FALSE the "encountered an error" failure.
check_transaction_error(bundle_status) ==
    IF bundle_status.err # None
    THEN JIndex(bundle_status.err[1], "Ok") = JNull
    ELSE TRUE

\* print_transaction_url: the line printed.
print_transaction_url(bundle_status) ==
    IF bundle_status.transactions # None
    THEN IF bundle_status.transactions[1] # << >>
         THEN "Transaction URL: https://solscan.io/tx/" \o Head(bundle_status.transactions[1])
         ELSE "Unable to extract transaction ID."
    ELSE "No transactions found in the bundle status."

\* A phase-1 loop body in which a top-level error field aborts polling.
in_flight_attempt_error_aborts(reply) ==
    IF ~reply.ok THEN [ret |-> TRUE, next |-> "done", result |-> TransportError]
    ELSE IF JGet(reply.v, "error") # None
         THEN [ret |-> TRUE, next |-> "done", result |-> "Error checking bundle status"]
    ELSE IF in_flight_branch(reply.v) = "Landed"
         THEN [ret |-> TRUE, next |-> "final", result |-> ""]
         ELSE [ret |-> FALSE, next |-> "inflight", result |-> ""]

\* One pass of the phase-1 loop body for a reply: ret says whether
\* jito_request leaves the loop with it, next where it goes.
in_flight_attempt(reply) ==
    IF ~reply.ok THEN [ret |-> TRUE, next |-> "done", result |-> TransportError]
    ELSE IF in_flight_branch(reply.v) = "Landed"
         THEN [ret |-> TRUE, next |-> "final", result |-> ""]
         ELSE [ret |-> FALSE, next |-> "inflight", result |-> ""]

\* A phase-2 loop body that returns success as soon as the bundle is "confirmed".
final_attempt_confirmed_returns(reply) ==
    IF ~reply.ok THEN [ret |-> TRUE, result |-> TransportError, log |-> None]
    ELSE LET bundle_status == get_bundle_status(reply.v) IN
         IF ~bundle_status.ok
         THEN [ret |-> TRUE, result |-> bundle_status.error, log |-> None]
         ELSE IF bundle_status.confirmation_status \in {Some("confirmed"), Some("finalized")}
         THEN IF check_transaction_error(bundle_status)
              THEN [ret |-> TRUE, result |-> "Ok",
                    log |-> Some(print_transaction_url(bundle_status))]
              ELSE [ret |-> TRUE, result |-> "Transaction encountered an error",
                    log |-> None]
         ELSE [ret |-> FALSE, result |-> "", log |-> None]

\* One pass of the loop body of check_final_bundle_status for a reply.
final_attempt(reply) ==
    IF ~reply.ok THEN [ret |-> TRUE, result |-> TransportError, log |-> None]
    ELSE LET bundle_status == get_bundle_status(reply.v) IN
         IF ~bundle_status.ok
         THEN [ret |-> TRUE, result |-> bundle_status.error, log |-> None]
         ELSE IF bundle_status.confirmation_status = Some("confirmed")
         THEN IF check_transaction_error(bundle_status)
              THEN [ret |-> FALSE, result |-> "", log |-> None]
              ELSE [ret |-> TRUE, result |-> "Transaction encountered an error",
                    log |-> None]
         ELSE IF bundle_status.confirmation_status = Some("finalized")
         THEN IF check_transaction_error(bundle_status)
              THEN [ret |-> TRUE, result |-> "Ok",
                    log |-> Some(print_transaction_url(bundle_status))]
              ELSE [ret |-> TRUE, result |-> "Transaction encountered an error",
                    log |-> None]
         ELSE [ret |-> FALSE, result |-> "", log |-> None]

\* The three transactions jito_request builds once it has the tip account.
jito_transactions(tip_account, blockhash) ==
    << Transfer(tip_account, 123456, blockhash),
       [instructions |->
            << [program |-> "system",
                to |-> "6Q3D2WvMTo4h34WPWUBphqdZD1K3MVZikJxfrJBaN7gT", lamports |-> 2202],
               [program |-> "MemoSq4gqABAXKb96qnH8TysNcWxMyWCqXgDLGmfcHr",
                to |-> "", lamports |-> 0] >>,
        blockhash |-> blockhash],
       Transfer("89ab91UYbFj8KBJUv1FYgLNzAwaDXdDpE8D4i8vnRy4J", 4404, blockhash) >>

\* A bundle of all three transactions jito_request builds.
jito_bundle_all_three(built) == built

\* json!([serialized_tip_tx, _serialized_tx2])
jito_bundle(built) == << built[1], built[3] >>

JInit ==
    /\ jpc = "enter"
    /\ jresult = ""
    /\ bundle_uuid = None
    /\ jbundle = << >>
    /\ inflight_polls = 0
    /\ final_polls = 0
    /\ inflight_sleeps = 0
    /\ final_sleeps = 0
    /\ jlast = None
    /\ jlog = None
    /\ jblockhash \in Blockhashes
    /\ jbuilt = << >>

\* The call of jito_request up to its first await:
\* constants::JITO_RPC_ENDPOINT.clone() (the first access resolves the cell),
\* the relay client is built and get_random_tip_account is called.
JitoEnter ==
    /\ jpc = "enter"
    /\ jpc' = "tip"
    /\ JITO_RPC_ENDPOINT' = Lazy_force(JITO_RPC_ENDPOINT, env, "JITO_RPC_ENDPOINT")
    /\ UNCHANGED << jresult, bundle_uuid, jbundle, inflight_polls, final_polls,
                    inflight_sleeps, final_sleeps, jlast, jlog, jblockhash, jbuilt >>
    /\ UNCHANGED << GRPC_ENDPOINT, cpc, cout, env_changes >>
    /\ UNCHANGED << evars, wvars, dvars, lvars >>

\* get_random_tip_account().await?, Pubkey::from_str(..)?, then the three
\* transactions are built and send_bundle is called.
JitoTipAccount ==
    /\ jpc = "tip"
    /\ \E reply \in TipAccountReplies :
        /\ jlast' = Some(reply)
        /\ IF ~reply.ok
           THEN /\ jpc' = "done"
                /\ jresult' = TransportError
                /\ UNCHANGED << jbuilt, jbundle >>
           ELSE IF ~Pubkey_from_str(reply.s)
           THEN /\ jpc' = "done"
                /\ jresult' = "ParsePubkeyError"
                /\ UNCHANGED << jbuilt, jbundle >>
           ELSE /\ jpc' = "send"
                /\ jbuilt' = jito_transactions(reply.s.name, jblockhash)
                /\ jbundle' = jito_bundle(jito_transactions(reply.s.name, jblockhash))
                /\ UNCHANGED jresult
    /\ UNCHANGED << bundle_uuid, inflight_polls, final_polls, inflight_sleeps,
                    final_sleeps, jlog, jblockhash >>
    /\ UNCHANGED << evars, wvars, dvars, cvars, lvars >>

\* A bundle id taken from any non-null value at "result".
bundle_uuid_of_any_value(response) ==
    IF JIndex(response, "result") = JNull THEN None
    ELSE IF JIndex(response, "result").t = "str" THEN Some(JIndex(response, "result").s)
    ELSE Some("")

\* response["result"].as_str()
bundle_uuid_of(response) == JAsStr(JIndex(response, "result"))

\* send_bundle(..).await?, then the bundle id is extracted and phase 1 starts.
JitoSendBundle ==
    /\ jpc = "send"
    /\ \E reply \in SendBundleReplies :
        /\ jlast' = Some(reply)
        /\ IF ~reply.ok
           THEN /\ jpc' = "done"
                /\ jresult' = TransportError
                /\ UNCHANGED bundle_uuid
           ELSE IF bundle_uuid_of(reply.v) = None
           THEN /\ jpc' = "done"
                /\ jresult' = "Failed to get bundle UUID from response"
                /\ UNCHANGED bundle_uuid
           ELSE /\ bundle_uuid' = bundle_uuid_of(reply.v)
                /\ IF 1 \in retry_range(max_retries)
                   THEN jpc' = "inflight" /\ UNCHANGED jresult
                   ELSE /\ jpc' = "done"
                        /\ jresult' = "Failed to confirm bundle status after "
                                        \o ToString(max_retries) \o " attempts"
    /\ UNCHANGED << jbundle, inflight_polls, final_polls, inflight_sleeps,
                    final_sleeps, jlog, jblockhash, jbuilt >>
    /\ UNCHANGED << evars, wvars, dvars, cvars, lvars >>

\* The end of one pass of a polling loop: the next attempt of the phase, or
\* the error returned behind the loop.
loop_end(attempt, max, phase, failure) ==
    IF attempt + 1 \in retry_range(max)
    THEN [jpc |-> phase, jresult |-> ""]
    ELSE [jpc |-> "done", jresult |-> failure \o ToString(max) \o " attempts"]

\* One attempt of the phase-1 loop up to its sleep: the reply of the
\* in-flight query and the match on it.
JitoInFlightPoll ==
    /\ jpc = "inflight"
    /\ inflight_polls + 1 \in retry_range(max_retries)
    /\ \E reply \in InFlightReplies :
        LET attempt == inflight_polls + 1
            step == in_flight_attempt(reply)
        IN  /\ inflight_polls' = attempt
            /\ jlast' = Some(reply)
            /\ IF step.ret /\ step.next = "final"
               THEN IF 1 \in retry_range(max_retries_final)
                    THEN jpc' = "final" /\ UNCHANGED jresult
                    ELSE /\ jpc' = "done"
                         /\ jresult' = "Failed to get finalized status after "
                                         \o ToString(max_retries_final) \o " attempts"
               ELSE IF step.ret
               THEN /\ jpc' = "done"
                    /\ jresult' = step.result
               ELSE IF sleeps_after(attempt, max_retries)
               THEN jpc' = "inflight_sleep" /\ UNCHANGED jresult
               ELSE /\ jpc' = loop_end(attempt, max_retries, "inflight",
                                       "Failed to confirm bundle status after ").jpc
                    /\ jresult' = loop_end(attempt, max_retries, "inflight",
                                           "Failed to confirm bundle status after ").jresult
    /\ UNCHANGED << bundle_uuid, jbundle, final_polls, inflight_sleeps, final_sleeps,
                    jlog, jblockhash, jbuilt >>
    /\ UNCHANGED << evars, wvars, dvars, cvars, lvars >>

\* sleep(retry_delay).await of the phase-1 loop returns: the pass ends.
JitoInFlightSleep ==
    /\ jpc = "inflight_sleep"
    /\ inflight_sleeps' = inflight_sleeps + 1
    /\ jpc' = loop_end(inflight_polls, max_retries, "inflight",
                       "Failed to confirm bundle status after ").jpc
    /\ jresult' = loop_end(inflight_polls, max_retries, "inflight",
                           "Failed to confirm bundle status after ").jresult
    /\ UNCHANGED << bundle_uuid, jbundle, inflight_polls, final_polls, final_sleeps,
                    jlast, jlog, jblockhash, jbuilt >>
    /\ UNCHANGED << evars, wvars, dvars, cvars, lvars >>

\* One attempt of the loop of check_final_bundle_status up to its sleep.
JitoFinalPoll ==
    /\ jpc = "final"
    /\ final_polls + 1 \in retry_range(max_retries_final)
    /\ \E reply \in FinalReplies :
        LET attempt == final_polls + 1
            step == final_attempt(reply)
        IN  /\ final_polls' = attempt
            /\ jlast' = Some(reply)
            /\ IF step.ret
               THEN /\ jpc' = "done"
                    /\ jresult' = step.result
                    /\ jlog' = step.log
               ELSE /\ UNCHANGED jlog
                    /\ IF sleeps_after(attempt, max_retries_final)
                       THEN jpc' = "final_sleep" /\ UNCHANGED jresult
                       ELSE /\ jpc' = loop_end(attempt, max_retries_final, "final",
                                               "Failed to get finalized status after ").jpc
                            /\ jresult' =
                                   loop_end(attempt, max_retries_final, "final",
                                            "Failed to get finalized status after ").jresult
    /\ UNCHANGED << bundle_uuid, jbundle, inflight_polls, inflight_sleeps, final_sleeps,
                    jblockhash, jbuilt >>
    /\ UNCHANGED << evars, wvars, dvars, cvars, lvars >>

\* sleep(retry_delay).await of check_final_bundle_status returns.
JitoFinalSleep ==
    /\ jpc = "final_sleep"
    /\ final_sleeps' = final_sleeps + 1
    /\ jpc' = loop_end(final_polls, max_retries_final, "final",
                       "Failed to get finalized status after ").jpc
    /\ jresult' = loop_end(final_polls, max_retries_final, "final",
                           "Failed to get finalized status after ").jresult
    /\ UNCHANGED << bundle_uuid, jbundle, inflight_polls, final_polls, inflight_sleeps,
                    jlast, jlog, jblockhash, jbuilt >>
    /\ UNCHANGED << evars, wvars, dvars, cvars, lvars >>

JitoNext ==
    \/ JitoEnter
    \/ JitoTipAccount
    \/ JitoSendBundle
    \/ JitoInFlightPoll
    \/ JitoInFlightSleep
    \/ JitoFinalPoll
    \/ JitoFinalSleep


(***************************************************************************)
(* The AMM instruction decoder (src/src/ex/raydium.rs).  An instruction is *)
(* its payload: the bytes bs58::decode yields from UiCompiledInstruction   *)
(* data.  Borsh types are described by records: k names the kind, of the   *)
(* type under an Option, fields the field types of a struct.               *)
(***************************************************************************)
TU8 == [k |-> "u8"]

TU16 == [k |-> "u16"]

TU64 == [k |-> "u64"]

TPubkey == [k |-> "pubkey"]

TBool == [k |-> "bool"]

TI64 == [k |-> "i64"]

TString == [k |-> "string"]

TOption(ty) == [k |-> "option", of |-> ty]

TStruct(fields) == [k |-> "struct", fields |-> fields]

\* Bytes a fixed-width kind occupies.
Width(ty) ==
    CASE ty.k = "u8" -> 1
      [] ty.k = "u16" -> 2
      [] ty.k = "u64" -> 8
      [] ty.k = "pubkey" -> 32
      [] ty.k = "bool" -> 1
      [] ty.k = "i64" -> 8

\* Reads the low byte only.
LEValue_low_byte(bytes) == IF bytes = << >> THEN 0 ELSE Head(bytes)

\* The integer a little-endian byte string denotes.
RECURSIVE LEValue(_)
LEValue(bytes) ==
    IF bytes = << >> THEN 0 ELSE Head(bytes) + 256 * LEValue(Tail(bytes))

BorshFail == [ok |-> FALSE, v |-> << >>, rest |-> << >>]

\* The i64 a little-endian two's-complement byte string denotes.
I64Value(bytes) ==
    IF bytes[Len(bytes)] >= 128
    THEN -(LEValue([ i \in 1 .. Len(bytes) |-> 255 - bytes[i] ]) + 1)
    ELSE LEValue(bytes)

\* core::str::from_utf8 accepts the bytes: well-formed sequences of one to
\* four bytes, no overlong forms, no surrogates, nothing above U+10FFFF.
RECURSIVE Utf8Valid(_)
Utf8Valid(bytes) ==
    IF bytes = << >> THEN TRUE
    ELSE LET b1 == bytes[1]
             n == Len(bytes)
             cont(i) == i <= n /\ bytes[i] >= 128 /\ bytes[i] <= 191
             from(i) == SubSeq(bytes, i, n)
         IN  IF b1 <= 127 THEN Utf8Valid(from(2))
             ELSE IF b1 >= 194 /\ b1 <= 223 THEN cont(2) /\ Utf8Valid(from(3))
             ELSE IF b1 >= 224 /\ b1 <= 239
             THEN /\ cont(2) /\ cont(3)
                  /\ (b1 = 224 => bytes[2] >= 160)
                  /\ (b1 = 237 => bytes[2] <= 159)
                  /\ Utf8Valid(from(4))
             ELSE IF b1 >= 240 /\ b1 <= 244
             THEN /\ cont(2) /\ cont(3) /\ cont(4)
                  /\ (b1 = 240 => bytes[2] >= 144)
                  /\ (b1 = 244 => bytes[2] <= 143)
                  /\ Utf8Valid(from(5))
             ELSE FALSE


\* BorshDeserialize::deserialize_reader for a type: the value read and the
\* bytes left, or a failure (unexpected end of input, invalid Option tag).
RECURSIVE BorshRead(_, _)
RECURSIVE BorshReadFields(_, _)
BorshRead(ty, data) ==
    IF ty.k = "option"
    THEN IF Len(data) < 1 THEN BorshFail
         ELSE IF data[1] = 0 THEN [ok |-> TRUE, v |-> None, rest |-> Tail(data)]
         ELSE IF data[1] = 1
              THEN LET inner == BorshRead(ty.of, Tail(data))
                   IN  IF inner.ok
                       THEN [ok |-> TRUE, v |-> Some(inner.v), rest |-> inner.rest]
                       ELSE BorshFail
         ELSE BorshFail
    ELSE IF ty.k = "struct" THEN BorshReadFields(ty.fields, data)
    ELSE IF ty.k = "string"
    THEN \* a u32 length, then that many bytes of UTF-8; a length of 2^31 or
         \* more exceeds every payload
         IF Len(data) < 4 \/ data[4] >= 128 THEN BorshFail
         ELSE LET len == LEValue(SubSeq(data, 1, 4))
              IN  IF Len(data) - 4 < len THEN BorshFail
                  ELSE IF ~Utf8Valid(SubSeq(data, 5, 4 + len)) THEN BorshFail
                  ELSE [ok |-> TRUE, v |-> SubSeq(data, 5, 4 + len),
                        rest |-> SubSeq(data, 5 + len, Len(data))]
    ELSE IF Len(data) < Width(ty) THEN BorshFail
    ELSE LET bytes == SubSeq(data, 1, Width(ty))
             rest == SubSeq(data, Width(ty) + 1, Len(data))
         IN  IF ty.k = "bool"
             THEN IF bytes[1] > 1 THEN BorshFail
                  ELSE [ok |-> TRUE, v |-> bytes[1] = 1, rest |-> rest]
             ELSE [ok |-> TRUE,
                   v |-> IF ty.k = "pubkey" THEN bytes
                         ELSE IF ty.k = "i64" THEN I64Value(bytes)
                         ELSE LEValue(bytes),
                   rest |-> rest]

BorshReadFields(fields, data) ==
    IF fields = << >> THEN [ok |-> TRUE, v |-> << >>, rest |-> data]
    ELSE LET first == BorshRead(Head(fields), data)
         IN  IF ~first.ok THEN BorshFail
             ELSE LET others == BorshReadFields(Tail(fields), first.rest)
                  IN  IF ~others.ok THEN BorshFail
                      ELSE [ok |-> TRUE, v |-> << first.v >> \o others.v,
                            rest |-> others.rest]

\* A deserialization that stops at the end of the value and leaves trailing
\* bytes unread (BorshDeserialize::deserialize).
try_from_slice_prefix(ty, data) ==
    LET r == BorshRead(ty, data)
    IN  IF r.ok THEN [ok |-> TRUE, v |-> r.v] ELSE [ok |-> FALSE, v |-> << >>]

\* BorshDeserialize::try_from_slice: the whole slice must be consumed.
try_from_slice(ty, data) ==
    LET r == BorshRead(ty, data)
    IN  IF r.ok /\ r.rest = << >> THEN [ok |-> TRUE, v |-> r.v] ELSE [ok |-> FALSE, v |-> << >>]

SwapInstructionBaseIn == TStruct(<< TU64, TU64 >>)

SwapInstructionBaseOut == TStruct(<< TU64, TU64 >>)

DepositInstruction == TStruct(<< TU64, TU64, TU64, TOption(TU64) >>)

WithdrawInstruction == TStruct(<< TU64, TOption(TU64), TOption(TU64) >>)

InitializeInstruction == TStruct(<< TU8, TU64 >>)

Initialize2Instruction == TStruct(<< TU8, TU64, TU64, TU64 >>)

PreInitializeInstruction == TStruct(<< TU8 >>)

MonitorStepInstruction == TStruct(<< TU16, TU16, TU16 >>)

Fees == TStruct(<< TU64, TU64, TU64, TU64, TU64, TU64, TU64, TU64 >>)

LastOrderDistance == TStruct(<< TU64, TU64 >>)

SetParamsInstruction ==
    TStruct(<< TU8, TOption(TU64), TOption(TPubkey), TOption(Fees),
               TOption(LastOrderDistance) >>)

WithdrawSrmInstruction == TStruct(<< TU64 >>)

SimulateInstruction ==
    TStruct(<< TU8, TOption(SwapInstructionBaseIn), TOption(SwapInstructionBaseOut) >>)

AdminCancelOrdersInstruction == TStruct(<< TU16 >>)

ConfigArgs == TStruct(<< TU8, TOption(TPubkey), TOption(TU64) >>)

\* The unit structs: their decoders accept the one-byte payload only.
UnitStruct == TStruct(<< >>)

\* The candidates in the order AmmInstruction::try_from tries them: the
\* opcode (index) each decoder compares the first byte with, the payload type,
\* whether the decoder demands data.len() == 1, and the variant it yields.
AmmCandidates ==
    << [index |-> 3, ty |-> DepositInstruction, unit |-> FALSE, variant |-> "Deposit"],
       [index |-> 4, ty |-> WithdrawInstruction, unit |-> FALSE, variant |-> "Withdraw"],
       [index |-> 9, ty |-> SwapInstructionBaseIn, unit |-> FALSE, variant |-> "SwapBaseIn"],
       [index |-> 11, ty |-> SwapInstructionBaseOut, unit |-> FALSE,
        variant |-> "SwapBaseOut"],
       [index |-> 0, ty |-> InitializeInstruction, unit |-> FALSE, variant |-> "Initialize"],
       [index |-> 1, ty |-> Initialize2Instruction, unit |-> FALSE,
        variant |-> "Initialize2"],
       [index |-> 10, ty |-> PreInitializeInstruction, unit |-> FALSE,
        variant |-> "PreInitialize"],
       [index |-> 2, ty |-> MonitorStepInstruction, unit |-> FALSE,
        variant |-> "MonitorStep"],
       [index |-> 6, ty |-> SetParamsInstruction, unit |-> FALSE, variant |-> "SetParams"],
       [index |-> 8, ty |-> WithdrawSrmInstruction, unit |-> FALSE,
        variant |-> "WithdrawSrm"],
       [index |-> 12, ty |-> SimulateInstruction, unit |-> FALSE,
        variant |-> "SimulateInfo"],
       [index |-> 13, ty |-> AdminCancelOrdersInstruction, unit |-> FALSE,
        variant |-> "AdminCancelOrders"],
       [index |-> 16, ty |-> ConfigArgs, unit |-> FALSE,
        variant |-> "UpdateConfigAccount"],
       [index |-> 14, ty |-> UnitStruct, unit |-> TRUE, variant |-> "CreateConfigAccount"],
       [index |-> 7, ty |-> UnitStruct, unit |-> TRUE, variant |-> "WithdrawPnl"] >>

\* The stand-alone decoder of MigrateToOpenBook, which the union never tries.
MigrateToOpenBook == [index |-> 5, ty |-> UnitStruct, unit |-> TRUE,
                      variant |-> "MigrateToOpenBook"]

\* Unit candidates that do not compare the first byte with their opcode.
candidate_try_from_any_unit(c, data) ==
    IF c.unit
    THEN [ok |-> Len(data) = 1, v |-> << >>]
    ELSE IF Len(data) >= 1 /\ data[1] = c.index
         THEN try_from_slice(c.ty, Tail(data))
         ELSE [ok |-> FALSE, v |-> << >>]

\* TryFrom<&UiCompiledInstruction> of one candidate type.
candidate_try_from(c, data) ==
    IF c.unit
    THEN IF Len(data) = 1 /\ data[1] = c.index
         THEN [ok |-> TRUE, v |-> << >>]
         ELSE [ok |-> FALSE, v |-> << >>]
    ELSE IF Len(data) >= 1 /\ data[1] = c.index
         THEN try_from_slice(c.ty, Tail(data))
         ELSE [ok |-> FALSE, v |-> << >>]

RECURSIVE first_candidate(_, _)
first_candidate(cands, data) ==
    IF cands = << >>
    THEN [ok |-> FALSE, variant |-> "", v |-> << >>,
          error |-> "failed to convert to target AmmInstruction"]
    ELSE LET r == candidate_try_from(Head(cands), data)
         IN  IF r.ok
             THEN [ok |-> TRUE, variant |-> Head(cands).variant, v |-> r.v, error |-> ""]
             ELSE first_candidate(Tail(cands), data)

\* A union that also tries the MigrateToOpenBook decoder.
AmmInstruction_try_from_with_migrate(data) ==
    first_candidate(AmmCandidates \o << MigrateToOpenBook >>, data)

\* impl TryFrom<UiInstruction> for AmmInstruction, on a compiled instruction.
AmmInstruction_try_from(data) == first_candidate(AmmCandidates, data)

(***************************************************************************)
(* The launch-program event decoder (src/src/ex/pumpfun.rs).  An event is  *)
(* found at offset 16 of the payload, behind its discriminator at 8..16.   *)
(***************************************************************************)
PUMPFUN_CREATE_EVENT == << 27, 114, 169, 77, 222, 235, 99, 118 >>

PUMPFUN_COMPLETE_EVENT == << 95, 114, 97, 156, 212, 46, 152, 8 >>

PUMPFUN_TRADE_EVENT == << 189, 219, 127, 211, 78, 230, 97, 238 >>

CreateEvent == TStruct(<< TString, TString, TString, TPubkey, TPubkey, TPubkey >>)

CompleteEvent == TStruct(<< TPubkey, TPubkey, TPubkey, TI64 >>)

\* mint, sol_amount, token_amount, is_buy, user, timestamp and four reserves.
TradeEvent ==
    TStruct(<< TPubkey, TU64, TU64, TBool, TPubkey, TI64, TU64, TU64, TU64, TU64 >>)

\* A discriminator where bytes 8..16 are read differs from the constant.
try_from_compiled_instruction_at_zero(discriminator, ty, data) ==
    IF Len(data) > 16 /\ SubSeq(data, 1, 8) = discriminator
    THEN try_from_slice(ty, SubSeq(data, 17, Len(data)))
    ELSE [ok |-> FALSE, v |-> << >>]

\* CreateEvent / CompleteEvent / TradeEvent ::try_from_compiled_instruction:
\* Some(event) or None.
try_from_compiled_instruction(discriminator, ty, data) ==
    IF Len(data) > 16 /\ SubSeq(data, 9, 16) = discriminator
    THEN try_from_slice(ty, SubSeq(data, 17, Len(data)))
    ELSE [ok |-> FALSE, v |-> << >>]

\* A Trade event surfaced by a flag other than is_buy.
trade_variant_always_buy(trade) == "PumpfunBuy"

\* `if trade.is_buy { PumpfunBuy(trade) } else { PumpfunSell(trade) }`
trade_variant(trade) == IF trade[4] THEN "PumpfunBuy" ELSE "PumpfunSell"

\* impl TryFrom<UiInstruction> for TargetEvent, on a compiled instruction.
TargetEvent_try_from(data) ==
    LET create == try_from_compiled_instruction(PUMPFUN_CREATE_EVENT, CreateEvent, data)
        complete ==
            try_from_compiled_instruction(PUMPFUN_COMPLETE_EVENT, CompleteEvent, data)
        trade == try_from_compiled_instruction(PUMPFUN_TRADE_EVENT, TradeEvent, data)
    IN  IF create.ok
        THEN [ok |-> TRUE, variant |-> "PumpfunCreate", v |-> create.v, error |-> ""]
        ELSE IF complete.ok
        THEN [ok |-> TRUE, variant |-> "PumpfunComplete", v |-> complete.v, error |-> ""]
        ELSE IF trade.ok
        THEN [ok |-> TRUE, variant |-> trade_variant(trade.v), v |-> trade.v,
              error |-> ""]
        ELSE [ok |-> FALSE, variant |-> "", v |-> << >>,
              error |-> "failed to convert to target tx"]

(***************************************************************************)
(* Configuration and key loading (src/src/constants.rs, src/src/utils.rs). *)
(***************************************************************************)
\* default_solana_keypair_path: home_dir().expect(..) joined with the fixed tail.
default_solana_keypair_path(h) ==
    IF h = None THEN [panic |-> TRUE, path |-> ""]
    ELSE [panic |-> FALSE, path |-> h[1] \o "/.config/solana/id.json"]

\* read_keypair_file(keypair_path) in environment e with Lazy cell lazy:
\* the outcome ("Ok", "Err" or "panic"), the path read and the cell afterwards.
read_keypair_file(keypair_path, e, h, fs, lazy) ==
    IF keypair_path # None
    THEN [outcome |-> IF keypair_path[1] \in fs THEN "Ok" ELSE "Err",
          error |-> IF keypair_path[1] \in fs THEN "" ELSE "Failed to read keypair file",
          path |-> keypair_path[1], lazy |-> lazy]
    ELSE LET cell == IF lazy # None THEN lazy ELSE env_var(e, "KEYPAIR_FILE")
         IN  IF cell = None
             THEN [outcome |-> "panic", error |-> "", path |-> "", lazy |-> None]
             ELSE LET file == env_var(e, cell[1])
                      dflt == default_solana_keypair_path(h)
                  IN  IF file = None /\ dflt.panic
                      THEN [outcome |-> "panic", error |-> "", path |-> "", lazy |-> cell]
                      ELSE LET path == IF file # None THEN file[1] ELSE dflt.path
                           IN  [outcome |-> IF path \in fs THEN "Ok" ELSE "Err",
                                error |-> IF path \in fs THEN ""
                                          ELSE "Failed to read keypair file",
                                path |-> path, lazy |-> cell]

\* The worlds a run of the engine is started in.
EngineWorlds ==
    { [env |-> [KEYPAIR_FILE |-> "/keys/id.json", HOME |-> "/home/bot"],
       home |-> Some("/home/bot"),
       files |-> {"/keys/id.json", "/home/bot/.config/solana/id.json"}],
      [env |-> [KEYPAIR_FILE |-> "/keys/id.json", HOME |-> "/home/bot"],
       home |-> Some("/home/bot"),
       files |-> {"/keys/id.json"}],
      [env |-> [HOME |-> "/home/bot"],
       home |-> Some("/home/bot"),
       files |-> {"/home/bot/.config/solana/id.json"}] }

(***************************************************************************)
(* Stream items (src/src/engine.rs).  An item of the subscription stream   *)
(* is the end of the stream, an error status, or a message whose           *)
(* update_oneof is absent ("") or names the update kind; a Transaction     *)
(* update carries Option<SubscribeUpdateTransactionInfo>.                  *)
(***************************************************************************)
MaxInner == 2

MaxUpdates == 3

\* BorshSerialize of a u64: 8 bytes, little-endian.
RECURSIVE LEBytes(_, _)
LEBytes(n, width) ==
    IF width = 0 THEN << >> ELSE << n % 256 >> \o LEBytes(n \div 256, width - 1)

U64LE(n) == LEBytes(n, 8)

\* Payloads of inner instructions: the five kinds allow_sniper acts on, a
\* recognized kind it does not act on, and payloads no candidate accepts.
InnerPayloads ==
    { << 9 >> \o U64LE(1000) \o U64LE(1),
      << 11 >> \o U64LE(7) \o U64LE(300),
      << 12, 0, 0, 0 >>,
      << 3 >> \o U64LE(1) \o U64LE(2) \o U64LE(0) \o << 0 >>,
      << 4 >> \o U64LE(5) \o << 0, 0 >>,
      << 7 >>,
      << 5 >>,
      << 9, 1 >> }

\* Sequences over S of length at most n.
RECURSIVE SeqsUpTo(_, _)
SeqsUpTo(S, n) ==
    IF n = 0 THEN { << >> }
    ELSE LET shorter == SeqsUpTo(S, n - 1)
         IN  shorter \cup { Append(q, x) : q \in { r \in shorter : Len(r) = n - 1 }, x \in S }

\* meta.inner_instructions: a list of groups (one per top-level instruction
\* that has inner instructions), each a list of payloads.
InnerGroups ==
    { << >> }
    \cup { << flat >> : flat \in SeqsUpTo(InnerPayloads, MaxInner) }
    \cup UNION { { << SubSeq(flat, 1, k), SubSeq(flat, k + 1, Len(flat)) >> :
                   k \in 0 .. Len(flat) } : flat \in SeqsUpTo(InnerPayloads, MaxInner) }

TxInfo(has_transaction, has_message, has_meta, signature_len, inner) ==
    [has_transaction |-> has_transaction, has_message |-> has_message,
     has_meta |-> has_meta, signature_len |-> signature_len, inner |-> inner]

\* inner is None when the metadata carries inner_instructions_none.
TxInfos ==
    { TxInfo(TRUE, TRUE, TRUE, 64, Some(g)) : g \in InnerGroups }
    \cup { TxInfo(TRUE, TRUE, TRUE, 64, None),
           TxInfo(TRUE, TRUE, TRUE, 32, Some(<< << << 9 >> \o U64LE(1000) \o U64LE(1) >> >>)),
           TxInfo(TRUE, TRUE, FALSE, 64, None),
           TxInfo(TRUE, FALSE, TRUE, 64, Some(<< >>)),
           TxInfo(FALSE, FALSE, TRUE, 64, Some(<< >>)) }

StreamItem(item, oneof, info) == [item |-> item, oneof |-> oneof, info |-> info]

StreamItems ==
    { StreamItem("message", "Transaction", Some(t)) : t \in TxInfos }
    \cup { StreamItem("message", "Transaction", None),
           StreamItem("message", "BlockMeta", None),
           StreamItem("message", "Ping", None),
           StreamItem("message", "Slot", None),
           StreamItem("message", "", None),
           StreamItem("error", "", None),
           StreamItem("end", "", None) }

(***************************************************************************)
(* Engine::allow_sniper and Engine::send_bundle (src/src/engine.rs).       *)
(***************************************************************************)
\* The variants allow_sniper returns Ok(()) for.
SniperVariants == { "SwapBaseIn", "SwapBaseOut", "SimulateInfo", "Deposit", "Withdraw" }

\* convert_from::create_tx_with_meta(tx_info): fails when the metadata, the
\* transaction or its message is missing.
create_tx_with_meta_ok(tx_info) ==
    tx_info.has_meta /\ tx_info.has_transaction /\ tx_info.has_message

\* `for inner_ixs in ixs { for ix in inner_ixs.instructions`: the inner
\* instructions of every group, in document order.
RECURSIVE document_order(_)
document_order(groups) ==
    IF groups = << >> THEN << >> ELSE Head(groups) \o document_order(Tail(groups))

\* The loop body of allow_sniper over the instructions left, decoded counting
\* the AmmInstruction::try_from calls made so far.
RECURSIVE scan_instructions(_, _)
scan_instructions(ixs, decoded) ==
    IF ixs = << >>
    THEN [panic |-> FALSE, result |-> "Unexpected error", decoded |-> decoded,
          variant |-> ""]
    ELSE LET ins_result == AmmInstruction_try_from(Head(ixs))
         IN  IF ~ins_result.ok
             THEN [panic |-> FALSE, result |-> ins_result.error,
                   decoded |-> decoded + 1, variant |-> ""]
             ELSE IF ins_result.variant \in SniperVariants
             THEN [panic |-> FALSE, result |-> "Ok", decoded |-> decoded + 1,
                   variant |-> ins_result.variant]
             ELSE scan_instructions(Tail(ixs), decoded + 1)

\* Engine::allow_sniper: panic when the conversion is unwrapped on a failure,
\* else the Result returned, the number of instructions handed to the decoder
\* and the variant that made it return Ok.
allow_sniper(tx_info) ==
    IF ~create_tx_with_meta_ok(tx_info)
    THEN [panic |-> TRUE, result |-> "", decoded |-> 0, variant |-> ""]
    ELSE IF tx_info.inner = None
    THEN [panic |-> FALSE, result |-> "Unexpected error", decoded |-> 0, variant |-> ""]
    ELSE scan_instructions(document_order(tx_info.inner[1]), 0)

\* parsed_tx: "Err" when the signature is not 64 bytes, "panic" when the
\* transaction or its message is missing, else "Ok".
parsed_tx(tx_info) ==
    IF tx_info.signature_len # 64 THEN "Err"
    ELSE IF ~tx_info.has_transaction \/ ~tx_info.has_message THEN "panic"
    ELSE "Ok"

\* A bundle whose tip transaction is signed against a blockhash fetched anew.
engine_bundle_fresh_tip(tip_tx, transfer_tx) ==
    << [tip_tx EXCEPT !.blockhash = "hashC"], transfer_tx >>

\* json!([serialized_tip_tx, serialized_transfer_tx])
engine_bundle(tip_tx, transfer_tx) == << tip_tx, transfer_tx >>

\* A run loop that submits a bundle whatever allow_sniper returned.
allow_sniper_is_ok_always(result) == TRUE

\* allow_sniper.is_ok()
allow_sniper_is_ok(result) == result = "Ok"

\* A run loop that does not await send_bundle before the next stream.next().
after_send_bundle_not_awaited(result) ==
    [epc |-> "stream", eresult |-> "", printed |-> IF result = "Ok" THEN 0 ELSE 1]

\* A run loop that propagates the error of send_bundle with `?`.
after_send_bundle_propagates(result) ==
    IF result = "Ok" THEN [epc |-> "iter_end", eresult |-> "", printed |-> 0]
    ELSE [epc |-> "done", eresult |-> result, printed |-> 0]

\* What run does with bundle_result: an Err is printed, the loop goes on.
after_send_bundle(result) ==
    [epc |-> "iter_end", eresult |-> "", printed |-> IF result = "Ok" THEN 0 ELSE 1]

\* Replies of get_latest_blockhash: the blockhash text, valid marks what
\* Hash::from_str accepts.
BlockhashReplies ==
    { [ok |-> TRUE, blockhash |-> h, valid |-> TRUE] : h \in Blockhashes }
    \cup { [ok |-> TRUE, blockhash |-> "", valid |-> FALSE],
           [ok |-> FALSE, blockhash |-> "", valid |-> FALSE] }

EInit ==
    /\ epc = "new"
    /\ eresult = ""
    /\ recent_blockhash = None
    /\ sender = None
    /\ cur = None
    /\ allow = None
    /\ etransfer = None
    /\ ebundle = << >>
    /\ bundle_result = ""
    /\ relay_calls = << >>
    /\ updates = 0
    /\ bundle_errors = 0
    /\ elast = None
    /\ \E w \in EngineWorlds : env = w.env /\ home = w.home /\ files = w.files
    /\ KEYPAIR_FILE = None

\* Engine::new(): constants::JITO_RPC_ENDPOINT.clone() resolves the cell and
\* the relay client is built; main then calls run.
EngineNew ==
    /\ epc = "new"
    /\ epc' = "run"
    /\ JITO_RPC_ENDPOINT' = Lazy_force(JITO_RPC_ENDPOINT, env, "JITO_RPC_ENDPOINT")
    /\ UNCHANGED << eresult, recent_blockhash, sender, cur, allow, etransfer, ebundle,
                    bundle_result, relay_calls, updates, bundle_errors, elast >>
    /\ UNCHANGED << GRPC_ENDPOINT, cpc, cout, env_changes >>
    /\ UNCHANGED << jvars, wvars, dvars, lvars >>

\* The call of run up to its first await: constants::GRPC_ENDPOINT.clone()
\* (the first access resolves the cell), the endpoint is printed, the client
\* is built and connect is called.
EngineRun ==
    /\ epc = "run"
    /\ epc' = "connect"
    /\ GRPC_ENDPOINT' = Lazy_force(GRPC_ENDPOINT, env, "GRPC_ENDPOINT")
    /\ UNCHANGED << eresult, recent_blockhash, sender, cur, allow, etransfer, ebundle,
                    bundle_result, relay_calls, updates, bundle_errors, elast >>
    /\ UNCHANGED << JITO_RPC_ENDPOINT, cpc, cout, env_changes >>
    /\ UNCHANGED << jvars, wvars, dvars, lvars >>

\* The reply of connect().await?
EngineConnect ==
    /\ epc = "connect"
    /\ \E reply \in { [ok |-> TRUE], [ok |-> FALSE] } :
        IF reply.ok
        THEN epc' = "blockhash" /\ UNCHANGED eresult
        ELSE epc' = "done" /\ eresult' = "connect error"
    /\ UNCHANGED << recent_blockhash, sender, cur, allow, etransfer, ebundle,
                    bundle_result, relay_calls, updates, bundle_errors, elast >>
    /\ UNCHANGED << jvars, wvars, dvars, cvars, lvars >>

\* get_latest_blockhash(..).await?, Hash::from_str(..).unwrap(),
\* read_keypair_file(None).unwrap(), then subscribe_with_request is called.
EngineBlockhash ==
    /\ epc = "blockhash"
    /\ \E reply \in BlockhashReplies :
        LET key == read_keypair_file(None, env, home, files, KEYPAIR_FILE)
        IN  IF ~reply.ok
            THEN /\ epc' = "done"
                 /\ eresult' = TransportError
                 /\ UNCHANGED << recent_blockhash, sender, KEYPAIR_FILE >>
            ELSE IF ~reply.valid
            THEN /\ epc' = "done"
                 /\ eresult' = "panic"
                 /\ UNCHANGED << recent_blockhash, sender, KEYPAIR_FILE >>
            ELSE /\ recent_blockhash' = Some(reply.blockhash)
                 /\ KEYPAIR_FILE' = key.lazy
                 /\ IF key.outcome = "Ok"
                    THEN epc' = "subscribe" /\ sender' = Some(key.path) /\ UNCHANGED eresult
                    ELSE epc' = "done" /\ eresult' = "panic" /\ UNCHANGED sender
    /\ UNCHANGED << cur, allow, etransfer, ebundle, bundle_result, relay_calls,
                    updates, bundle_errors, elast >>
    /\ UNCHANGED << jvars, env, home, files, dvars, cvars, lvars >>

\* client.subscribe_with_request(Some(request)).await?
EngineSubscribe ==
    /\ epc = "subscribe"
    /\ \E reply \in { [ok |-> TRUE], [ok |-> FALSE] } :
        IF reply.ok
        THEN epc' = "stream" /\ UNCHANGED eresult
        ELSE epc' = "done" /\ eresult' = "subscribe error"
    /\ UNCHANGED << recent_blockhash, sender, cur, allow, etransfer, ebundle,
                    bundle_result, relay_calls, updates, bundle_errors, elast >>
    /\ UNCHANGED << jvars, wvars, dvars, cvars, lvars >>

\* stream.next().await and the loop body up to its next await: the match on
\* the update, allow_sniper, and send_bundle up to get_random_tip_account.
EngineStreamNext ==
    /\ epc = "stream"
    /\ updates < MaxUpdates
    /\ \E m \in StreamItems :
        /\ cur' = Some(m)
        /\ updates' = updates + 1
        /\ IF m.item = "end"
           THEN /\ epc' = "done"
                /\ eresult' = "Ok"
                /\ UNCHANGED << allow, etransfer, relay_calls >>
           ELSE IF m.item = "error"
           THEN /\ epc' = "done"
                /\ eresult' = "stream error"
                /\ UNCHANGED << allow, etransfer, relay_calls >>
           ELSE IF m.oneof = "Transaction" /\ m.info # None
           THEN LET tx_info == m.info[1]
                    allow_sniper_result == allow_sniper(tx_info)
                IN  IF allow_sniper_result.panic
                    THEN /\ epc' = "done"
                         /\ eresult' = "panic"
                         /\ UNCHANGED << allow, etransfer, relay_calls >>
                    ELSE /\ allow' = Some(allow_sniper_result)
                         /\ IF ~allow_sniper_is_ok(allow_sniper_result.result)
                            THEN /\ epc' = "iter_end"
                                 /\ UNCHANGED << eresult, etransfer, relay_calls >>
                            ELSE IF parsed_tx(tx_info) = "panic"
                            THEN /\ epc' = "done"
                                 /\ eresult' = "panic"
                                 /\ UNCHANGED << etransfer, relay_calls >>
                            ELSE /\ epc' = "tip"
                                 /\ etransfer' =
                                       Some(Transfer(
                                           "89ab91UYbFj8KBJUv1FYgLNzAwaDXdDpE8D4i8vnRy4J",
                                           52345, recent_blockhash[1]))
                                 /\ relay_calls' = << "getRandomTipAccount" >>
                                 /\ UNCHANGED eresult
           ELSE /\ epc' = "iter_end"
                /\ UNCHANGED << eresult, allow, etransfer, relay_calls >>
    /\ UNCHANGED << recent_blockhash, sender, ebundle, bundle_result, bundle_errors,
                    elast >>
    /\ UNCHANGED << jvars, wvars, dvars, cvars, lvars >>

\* send_bundle from the reply of get_random_tip_account().await? on: the tip
\* account is parsed, the tip transaction built and the bundle handed to
\* jito_sdk.send_bundle; on an error send_bundle returns and run prints it.
EngineTipAccount ==
    /\ epc = "tip"
    /\ \E reply \in TipAccountReplies :
        /\ elast' = Some(reply)
        /\ IF reply.ok /\ Pubkey_from_str(reply.s)
           THEN /\ ebundle' = engine_bundle(
                                  Transfer(reply.s.name, 12345, recent_blockhash[1]),
                                  etransfer[1])
                /\ relay_calls' = Append(relay_calls, "sendBundle")
                /\ epc' = "send"
                /\ UNCHANGED << eresult, bundle_result, bundle_errors >>
           ELSE LET result == IF reply.ok THEN "ParsePubkeyError" ELSE TransportError
                    after == after_send_bundle(result)
                IN  /\ bundle_result' = result
                    /\ epc' = after.epc
                    /\ eresult' = after.eresult
                    /\ bundle_errors' = bundle_errors + after.printed
                    /\ UNCHANGED << ebundle, relay_calls >>
    /\ UNCHANGED << recent_blockhash, sender, cur, allow, etransfer, updates >>
    /\ UNCHANGED << jvars, wvars, dvars, cvars, lvars >>

\* The reply of jito_sdk.send_bundle(..).await?: send_bundle returns, and run
\* prints the error if it returned one.
EngineSendBundle ==
    /\ epc = "send"
    /\ \E reply \in SendBundleReplies :
        LET result == IF reply.ok THEN "Ok" ELSE TransportError
            after == after_send_bundle(result)
        IN  /\ elast' = Some(reply)
            /\ bundle_result' = result
            /\ epc' = after.epc
            /\ eresult' = after.eresult
            /\ bundle_errors' = bundle_errors + after.printed
    /\ UNCHANGED << recent_blockhash, sender, cur, allow, etransfer, ebundle,
                    relay_calls, updates >>
    /\ UNCHANGED << jvars, wvars, dvars, cvars, lvars >>

\* The end of the loop body: the update and everything built for it are
\* dropped and run awaits stream.next() again.
EngineLoopBack ==
    /\ epc = "iter_end"
    /\ epc' = "stream"
    /\ cur' = None
    /\ allow' = None
    /\ etransfer' = None
    /\ ebundle' = << >>
    /\ bundle_result' = ""
    /\ relay_calls' = << >>
    /\ elast' = None
    /\ UNCHANGED << eresult, recent_blockhash, sender, updates, bundle_errors >>
    /\ UNCHANGED << jvars, wvars, dvars, cvars, lvars >>

(***************************************************************************)
(* Calls of the instruction decoders.  A decoder is handed a payload: the  *)
(* canonical encoding of a payload value behind its opcode, or raw bytes.  *)
(***************************************************************************)
MaxSeed == 31

MaxRawLen == 2

\* BorshSerialize::serialize for a type: integers little-endian, a key as
\* its 32 bytes, an Option as a presence byte and the value, a struct as its
\* fields in order.
RECURSIVE BorshWrite(_, _)
RECURSIVE BorshWriteFields(_, _)
BorshWrite(ty, v) ==
    IF ty.k = "option"
    THEN IF v = None THEN << 0 >> ELSE << 1 >> \o BorshWrite(ty.of, v[1])
    ELSE IF ty.k = "struct" THEN BorshWriteFields(ty.fields, v)
    ELSE IF ty.k = "pubkey" THEN v
    ELSE IF ty.k = "string" THEN LEBytes(Len(v), 4) \o v
    ELSE IF ty.k = "bool" THEN IF v THEN << 1 >> ELSE << 0 >>
    ELSE IF ty.k = "i64" /\ v < 0
    THEN [ i \in 1 .. 8 |-> 255 - LEBytes(-v - 1, 8)[i] ]
    ELSE LEBytes(v, Width(ty))

BorshWriteFields(fields, v) ==
    IF fields = << >> THEN << >>
    ELSE BorshWrite(Head(fields), Head(v)) \o BorshWriteFields(Tail(fields), Tail(v))

\* Values of the integer kinds: the least, the greatest the model's integers
\* hold, and values that span more than one byte.
IntegerValues(ty) ==
    CASE ty.k = "u8" -> << 0, 1, 7, 255 >>
      [] ty.k = "u16" -> << 0, 1, 258, 65535 >>
      [] ty.k = "u64" -> << 0, 1, 1000, 2147483647 >>
      [] ty.k = "i64" -> << 0, -1, 1700000000, -1000 >>

\* Strings, as their UTF-8 bytes: empty, "pump", and characters of two and
\* four bytes.
StringValues == << << >>, << 112, 117, 109, 112 >>, << 195, 169 >>,
                  << 240, 159, 154, 128, 33 >> >>

\* A value of a type, chosen by a seed: bit i-1 of the seed decides whether
\* the i-th field of a struct, when optional, is present.
RECURSIVE Sample(_, _)
RECURSIVE SampleFields(_, _, _)
Sample(ty, seed) ==
    IF ty.k = "option"
    THEN IF seed % 2 = 0 THEN None ELSE Some(Sample(ty.of, seed \div 2))
    ELSE IF ty.k = "struct" THEN SampleFields(ty.fields, seed, 1)
    ELSE IF ty.k = "pubkey" THEN [ i \in 1 .. 32 |-> (7 * seed + i) % 256 ]
    ELSE IF ty.k = "string" THEN StringValues[(seed % 4) + 1]
    ELSE IF ty.k = "bool" THEN seed % 2 = 1
    ELSE IntegerValues(ty)[(seed % 4) + 1]

SampleFields(fields, seed, i) ==
    IF fields = << >> THEN << >>
    ELSE << Sample(Head(fields), (seed \div (2 ^ (i - 1))) + i - 1) >>
         \o SampleFields(Tail(fields), seed, i + 1)

\* The opcode each decoder compares the first byte with (`let index: u8`),
\* the variant of AmmInstruction the union wraps its result in, and its type.
AmmOpcodeTable ==
    [ opcode \in { 0, 1, 2, 3, 4, 6, 7, 8, 9, 10, 11, 12, 13, 14, 16 } |->
        CASE opcode = 0 -> [variant |-> "Initialize", ty |-> InitializeInstruction]
          [] opcode = 1 -> [variant |-> "Initialize2", ty |-> Initialize2Instruction]
          [] opcode = 2 -> [variant |-> "MonitorStep", ty |-> MonitorStepInstruction]
          [] opcode = 3 -> [variant |-> "Deposit", ty |-> DepositInstruction]
          [] opcode = 4 -> [variant |-> "Withdraw", ty |-> WithdrawInstruction]
          [] opcode = 6 -> [variant |-> "SetParams", ty |-> SetParamsInstruction]
          [] opcode = 7 -> [variant |-> "WithdrawPnl", ty |-> UnitStruct]
          [] opcode = 8 -> [variant |-> "WithdrawSrm", ty |-> WithdrawSrmInstruction]
          [] opcode = 9 -> [variant |-> "SwapBaseIn", ty |-> SwapInstructionBaseIn]
          [] opcode = 10 -> [variant |-> "PreInitialize", ty |-> PreInitializeInstruction]
          [] opcode = 11 -> [variant |-> "SwapBaseOut", ty |-> SwapInstructionBaseOut]
          [] opcode = 12 -> [variant |-> "SimulateInfo", ty |-> SimulateInstruction]
          [] opcode = 13 -> [variant |-> "AdminCancelOrders",
                             ty |-> AdminCancelOrdersInstruction]
          [] opcode = 14 -> [variant |-> "CreateConfigAccount", ty |-> UnitStruct]
          [] opcode = 16 -> [variant |-> "UpdateConfigAccount", ty |-> ConfigArgs] ]

\* An instruction handed to a decoder: its payload and, when the payload was
\* encoded from a value, the tag and the value (tag -1: raw bytes).
DecoderInput(data, tag, value) == [data |-> data, tag |-> tag, value |-> value]

\* [opcode] followed by the canonical encoding of the payload value a seed
\* chooses.
AmmEncoded(opcode, seed) ==
    LET value == Sample(AmmOpcodeTable[opcode].ty, seed)
    IN  DecoderInput(<< opcode >> \o BorshWrite(AmmOpcodeTable[opcode].ty, value),
                     opcode, value)

\* Raw payloads, made of every opcode up to 18, and 255.
RawPayloads == SeqsUpTo(0 .. 18 \cup { 255 }, MaxRawLen)

\* raydium::AmmInstruction::try_from(ix) on an encoded payload value.
AmmDecode ==
    /\ dpc = "idle"
    /\ \E opcode \in DOMAIN AmmOpcodeTable, seed \in 0 .. MaxSeed :
        /\ din' = Some(AmmEncoded(opcode, seed))
        /\ dout' = Some(AmmInstruction_try_from(AmmEncoded(opcode, seed).data))
    /\ dpc' = "amm"
    /\ UNCHANGED << jvars, evars, wvars, cvars, lvars >>

\* raydium::AmmInstruction::try_from(ix) on raw bytes.
AmmDecodeRaw ==
    /\ dpc = "idle"
    /\ \E data \in RawPayloads :
        /\ din' = Some(DecoderInput(data, -1, << >>))
        /\ dout' = Some(AmmInstruction_try_from(data))
    /\ dpc' = "amm"
    /\ UNCHANGED << jvars, evars, wvars, cvars, lvars >>

\* The ways the bytes behind an assigned opcode are spoilt: the last byte
\* dropped, a byte appended, the presence byte of the first Option set to 2.
AmmMangles(opcode) ==
    IF AmmOpcodeTable[opcode].ty = UnitStruct THEN { "trailing" }
    ELSE { "truncated", "trailing" }
         \cup (IF opcode \in { 3, 4 } THEN { "option" } ELSE { })

AmmMangled(opcode, seed, mangle) ==
    LET data == AmmEncoded(opcode, seed).data
    IN  CASE mangle = "truncated" -> SubSeq(data, 1, Len(data) - 1)
          [] mangle = "trailing" -> Append(data, seed % 256)
          [] mangle = "option" ->
                 [data EXCEPT ![IF opcode = 3 THEN 1 + 24 + 1 ELSE 1 + 8 + 1] = 2]

\* raydium::AmmInstruction::try_from(ix) on a spoilt encoding behind an
\* assigned opcode.
AmmDecodeMangled ==
    /\ dpc = "idle"
    /\ \E opcode \in DOMAIN AmmOpcodeTable, seed \in 0 .. MaxSeed :
        \E mangle \in AmmMangles(opcode) :
            /\ din' = Some([data |-> AmmMangled(opcode, seed, mangle), tag |-> opcode,
                             value |-> AmmEncoded(opcode, seed).value,
                             mangle |-> mangle])
            /\ dout' = Some(AmmInstruction_try_from(AmmMangled(opcode, seed, mangle)))
    /\ dpc' = "amm_mangled"
    /\ UNCHANGED << jvars, evars, wvars, cvars, lvars >>

\* raydium::MigrateToOpenBook::try_from(&ui_ix)
MigrateDecode ==
    /\ dpc = "idle"
    /\ \E data \in RawPayloads :
        /\ din' = Some(DecoderInput(data, -1, << >>))
        /\ dout' = Some(candidate_try_from(MigrateToOpenBook, data))
    /\ dpc' = "migrate"
    /\ UNCHANGED << jvars, evars, wvars, cvars, lvars >>

\* The three events: discriminator, payload type and the variant of
\* TargetEvent a decoded event is wrapped in (Trade: by is_buy).
PumpfunEvents ==
    [ kind \in { "Create", "Complete", "Trade" } |->
        CASE kind = "Create" -> [discriminator |-> PUMPFUN_CREATE_EVENT, ty |-> CreateEvent]
          [] kind = "Complete" ->
                 [discriminator |-> PUMPFUN_COMPLETE_EVENT, ty |-> CompleteEvent]
          [] kind = "Trade" -> [discriminator |-> PUMPFUN_TRADE_EVENT, ty |-> TradeEvent] ]

\* The payload value a seed chooses for an event; is_buy of a Trade is given.
PumpfunValue(kind, seed, is_buy) ==
    LET value == Sample(PumpfunEvents[kind].ty, seed)
    IN  IF kind = "Trade" THEN [value EXCEPT ![4] = is_buy] ELSE value

\* Eight bytes, the discriminator and the canonical encoding of the value.
PumpfunPayload(kind, seed, value) ==
    [ i \in 1 .. 8 |-> (3 * seed + 11 * i) % 256 ]
    \o PumpfunEvents[kind].discriminator
    \o BorshWrite(PumpfunEvents[kind].ty, value)

\* Ways a payload is not the encoding of an event: a byte short, a byte
\* long, nothing behind the discriminator, one discriminator byte off, the
\* discriminator at 0..8, an is_buy byte of 2, a name that is not UTF-8.
Mangles(kind) ==
    { "none", "truncated", "trailing", "header", "discriminator", "shifted" }
    \cup (IF kind = "Trade" THEN { "bool" } ELSE { })
    \cup (IF kind = "Create" THEN { "utf8" } ELSE { })

Mangled(kind, seed, value, mangle) ==
    LET data == PumpfunPayload(kind, seed, value)
    IN  CASE mangle = "none" -> data
          [] mangle = "truncated" -> SubSeq(data, 1, Len(data) - 1)
          [] mangle = "trailing" -> Append(data, 0)
          [] mangle = "header" -> SubSeq(data, 1, 16)
          [] mangle = "discriminator" ->
                 [data EXCEPT ![9 + (seed % 8)] = (@ + 1) % 256]
          [] mangle = "shifted" ->
                 SubSeq(data, 9, 16) \o SubSeq(data, 1, 8) \o SubSeq(data, 17, Len(data))
          [] mangle = "bool" -> [data EXCEPT ![16 + 32 + 8 + 8 + 1] = 2]
          [] mangle = "utf8" ->
                 PumpfunPayload(kind, seed, [value EXCEPT ![1] = << 255 >>])

\* pumpfun::TargetEvent::try_from(ix) on an encoded event, mangled or not.
PumpfunDecode ==
    /\ dpc = "idle"
    /\ \E kind \in DOMAIN PumpfunEvents, seed \in 0 .. MaxSeed, is_buy \in BOOLEAN :
        \E mangle \in Mangles(kind) :
            LET value == PumpfunValue(kind, seed, is_buy)
                data == Mangled(kind, seed, value, mangle)
            IN  /\ din' = Some([data |-> data, kind |-> kind, value |-> value,
                             mangle |-> mangle])
                /\ dout' = Some(TargetEvent_try_from(data))
    /\ dpc' = "pumpfun"
    /\ UNCHANGED << jvars, evars, wvars, cvars, lvars >>

\* pumpfun::TargetEvent::try_from(ix) on raw bytes.
PumpfunDecodeRaw ==
    /\ dpc = "idle"
    /\ \E data \in RawPayloads :
        /\ din' = Some([data |-> data, kind |-> "", value |-> << >>, mangle |-> "raw"])
        /\ dout' = Some(TargetEvent_try_from(data))
    /\ dpc' = "pumpfun"
    /\ UNCHANGED << jvars, evars, wvars, cvars, lvars >>

(***************************************************************************)
(* Reads of the configuration and of the signer key, in an environment     *)
(* that changes between them.                                              *)
(***************************************************************************)
MaxEnvChanges == 2

\* Values the environment's variables are set to.  The variable named
\* "/keys/id.json" is the one read_keypair_file looks up when KEYPAIR_FILE
\* holds that path.
EnvValues ==
    [ name \in { "GRPC_ENDPOINT", "JITO_RPC_ENDPOINT", "KEYPAIR_FILE", "/keys/id.json" } |->
        CASE name = "GRPC_ENDPOINT" -> { "https://grpc.example:443" }
          [] name = "JITO_RPC_ENDPOINT" -> { "https://relay.example/api/v1" }
          [] name = "KEYPAIR_FILE" -> { "/keys/id.json", "/keys/other.json" }
          [] name = "/keys/id.json" -> { "/keys/other.json" } ]

\* std::env::set_var(name, value)
set_var(e, name, value) ==
    [ n \in DOMAIN e \cup { name } |-> IF n = name THEN value ELSE e[n] ]

\* std::env::remove_var(name)
remove_var(e, name) == [ n \in DOMAIN e \ { name } |-> e[n] ]

\* The environment changes: a variable is set, or removed.
EnvChange ==
    /\ cpc = "running"
    /\ env_changes < MaxEnvChanges
    /\ env_changes' = env_changes + 1
    /\ \E name \in DOMAIN EnvValues :
        \/ \E value \in EnvValues[name] : env' = set_var(env, name, value)
        \/ name \in DOMAIN env /\ env' = remove_var(env, name)
    /\ UNCHANGED << home, files, KEYPAIR_FILE, GRPC_ENDPOINT, JITO_RPC_ENDPOINT, cpc, cout >>
    /\ UNCHANGED << jvars, evars, dvars, lvars >>

\* constants::GRPC_ENDPOINT.clone(), constants::JITO_RPC_ENDPOINT.clone(),
\* constants::KEYPAIR_FILE.as_str(): the first access resolves the cell.
ReadConfig ==
    /\ cpc = "running"
    /\ \E name \in DOMAIN ConfigCells :
        LET cell == CASE name = "GRPC_ENDPOINT" -> GRPC_ENDPOINT
                      [] name = "JITO_RPC_ENDPOINT" -> JITO_RPC_ENDPOINT
                      [] name = "KEYPAIR_FILE" -> KEYPAIR_FILE
            forced == Lazy_force(cell, env, name)
        IN  /\ GRPC_ENDPOINT' = IF name = "GRPC_ENDPOINT" THEN forced ELSE GRPC_ENDPOINT
            /\ JITO_RPC_ENDPOINT' =
                   IF name = "JITO_RPC_ENDPOINT" THEN forced ELSE JITO_RPC_ENDPOINT
            /\ KEYPAIR_FILE' = IF name = "KEYPAIR_FILE" THEN forced ELSE KEYPAIR_FILE
            /\ cpc' = IF forced = None THEN "panic" ELSE "running"
            /\ cout' = Some([call |-> name, explicit |-> None, first |-> cell = None,
                             env |-> env,
                             outcome |-> IF forced = None THEN "panic" ELSE "Ok",
                             value |-> IF forced = None THEN "" ELSE forced[1],
                             error |-> ""])
    /\ UNCHANGED << env, home, files, env_changes >>
    /\ UNCHANGED << jvars, evars, dvars, lvars >>

\* utils::read_keypair_file(keypair_path), called without a path or with an
\* explicit one.
ReadKeypair ==
    /\ cpc = "running"
    /\ \E keypair_path \in { None, Some("/keys/id.json"), Some("/keys/missing.json") } :
        LET result == read_keypair_file(keypair_path, env, home, files, KEYPAIR_FILE)
        IN  /\ KEYPAIR_FILE' = result.lazy
            /\ cpc' = IF result.outcome = "panic" THEN "panic" ELSE "running"
            /\ cout' = Some([call |-> "read_keypair_file", explicit |-> keypair_path,
                             first |-> KEYPAIR_FILE = None,
                             env |-> env,
                             outcome |-> result.outcome, value |-> result.path,
                             error |-> result.error])
    /\ UNCHANGED << env, home, files, GRPC_ENDPOINT, JITO_RPC_ENDPOINT, env_changes >>
    /\ UNCHANGED << jvars, evars, dvars, lvars >>

\* No configuration value has been accessed.
CInit ==
    /\ GRPC_ENDPOINT = None
    /\ JITO_RPC_ENDPOINT = None
    /\ cpc = "running"
    /\ cout = None
    /\ env_changes = 0

\* No decoder has been called.
(***************************************************************************)
(* lock() of src/src/common.rs: ten threads add one to a Mutex<i32>.       *)
(***************************************************************************)
\* for _ in 1..=10
Workers == 1 .. 10

\* A lock() that is granted while another thread holds the mutex.
mutex_free_always(o) == TRUE

\* Mutex::lock blocks until no thread holds the mutex.
mutex_free(o) == o = 0

LInit ==
    /\ lpc = "spawn"
    /\ spawned = 0
    /\ joined = 0
    /\ wpc = [ w \in Workers |-> "none" ]
    /\ owner = 0
    /\ counter = 0
    /\ wnum = [ w \in Workers |-> 0 ]
    /\ lprinted = None

\* One pass of the first loop: thread::spawn and handlers.push(handle).
LockSpawn ==
    /\ lpc = "spawn"
    /\ spawned + 1 \in Workers
    /\ spawned' = spawned + 1
    /\ wpc' = [wpc EXCEPT ![spawned + 1] = "start"]
    /\ lpc' = IF spawned + 2 \in Workers THEN "spawn" ELSE "join"
    /\ UNCHANGED << joined, owner, counter, wnum, lprinted >>
    /\ UNCHANGED << jvars, evars, wvars, dvars, cvars >>

\* let mut num = counter.lock().unwrap();
WorkerLock(w) ==
    /\ wpc[w] = "start"
    /\ mutex_free(owner)
    /\ owner' = w
    /\ wpc' = [wpc EXCEPT ![w] = "locked"]
    /\ UNCHANGED << lpc, spawned, joined, counter, wnum, lprinted >>
    /\ UNCHANGED << jvars, evars, wvars, dvars, cvars >>

\* *num += 1, the read.
WorkerLoad(w) ==
    /\ wpc[w] = "locked"
    /\ wnum' = [wnum EXCEPT ![w] = counter]
    /\ wpc' = [wpc EXCEPT ![w] = "loaded"]
    /\ UNCHANGED << lpc, spawned, joined, owner, counter, lprinted >>
    /\ UNCHANGED << jvars, evars, wvars, dvars, cvars >>

\* *num += 1, the write.
WorkerStore(w) ==
    /\ wpc[w] = "loaded"
    /\ counter' = wnum[w] + 1
    /\ wpc' = [wpc EXCEPT ![w] = "stored"]
    /\ UNCHANGED << lpc, spawned, joined, owner, wnum, lprinted >>
    /\ UNCHANGED << jvars, evars, wvars, dvars, cvars >>

\* The end of the closure: the guard is dropped and the thread ends.
WorkerUnlock(w) ==
    /\ wpc[w] = "stored"
    /\ owner' = IF owner = w THEN 0 ELSE owner
    /\ wpc' = [wpc EXCEPT ![w] = "done"]
    /\ wnum' = [wnum EXCEPT ![w] = 0]
    /\ UNCHANGED << lpc, spawned, joined, counter, lprinted >>
    /\ UNCHANGED << jvars, evars, wvars, dvars, cvars >>

\* One pass of the second loop: h.join().unwrap() returns once the thread
\* of the handle has ended.
LockJoin ==
    /\ lpc = "join"
    /\ joined + 1 \in Workers
    /\ wpc[joined + 1] = "done"
    /\ joined' = joined + 1
    /\ lpc' = IF joined + 2 \in Workers THEN "join" ELSE "print"
    /\ UNCHANGED << spawned, wpc, owner, counter, wnum, lprinted >>
    /\ UNCHANGED << jvars, evars, wvars, dvars, cvars >>

\* println!("{:?}", *m.lock().unwrap()); the guard lives for the statement.
LockPrint ==
    /\ lpc = "print"
    /\ mutex_free(owner)
    /\ lprinted' = Some(counter)
    /\ lpc' = "done"
    /\ UNCHANGED << spawned, joined, wpc, owner, counter, wnum >>
    /\ UNCHANGED << jvars, evars, wvars, dvars, cvars >>

LockNext ==
    \/ LockSpawn
    \/ \E w \in Workers : WorkerLock(w)
    \/ \E w \in Workers : WorkerLoad(w)
    \/ \E w \in Workers : WorkerStore(w)
    \/ \E w \in Workers : WorkerUnlock(w)
    \/ LockJoin
    \/ LockPrint

DInit == dpc = "idle" /\ din = None /\ dout = None

Init == EInit /\ JInit /\ DInit /\ CInit /\ LInit

Next ==
    \/ EngineNew
    \/ EngineRun
    \/ EngineConnect
    \/ EngineBlockhash
    \/ EngineSubscribe
    \/ EngineStreamNext
    \/ EngineTipAccount
    \/ EngineSendBundle
    \/ EngineLoopBack

DecoderNext ==
    \/ AmmDecode
    \/ AmmDecodeRaw
    \/ AmmDecodeMangled
    \/ MigrateDecode
    \/ PumpfunDecode
    \/ PumpfunDecodeRaw

DecoderInit == Init /\ env = [HOME |-> "/home/bot"] /\ jblockhash = "hashA"

\* One call of a decoder on one instruction.
DecoderSpec == DecoderInit /\ [][DecoderNext]_vars

ConfigNext == EnvChange \/ ReadConfig \/ ReadKeypair

ConfigInit == Init /\ jblockhash = "hashA"

\* Accesses to the configuration during the life of one process.
ConfigSpec == ConfigInit /\ [][ConfigNext]_vars

\* One call of jito_request, the stand-alone bundle submission module.
JitoInit == Init /\ env = [HOME |-> "/home/bot"]

JitoSpec == JitoInit /\ [][JitoNext]_vars

\* The same call, with the scheduler running the task whenever it can go on
\* (a relay reply or a sleep always completes).
JitoFairSpec == JitoInit /\ [][JitoNext]_vars /\ WF_vars(JitoNext)

\* One run of the engine (the program main starts); jito_request is not part of it.
EngineInit == Init /\ jblockhash = "hashA"

Spec == EngineInit /\ [][Next]_vars

\* One call of lock().
LockInit == Init /\ env = [HOME |-> "/home/bot"] /\ jblockhash = "hashA"

LockSpec == LockInit /\ [][LockNext]_vars

\* Either entry point of the crate: a run of the engine (main) or one call of
\* jito_request (the test of jito.rs); whichever starts is the only one running.
BundleNext ==
    \/ (jpc = "enter" /\ Next)
    \/ (epc = "new" /\ JitoNext)

BundleSpec == Init /\ [][BundleNext]_vars

(***************************************************************************)
(* Properties of the bundle submission module.  The predicates below read  *)
(* a response document directly, by its JSON path.                         *)
(***************************************************************************)
\* result.value[0] of a response, JNull when the path does not exist.
StatusRecord(doc) ==
    LET value == JIndex(JIndex(doc, "result"), "value")
    IN  IF value.t = "arr" /\ Len(value.a) >= 1 THEN value.a[1] ELSE JNull

HasStatusRecord(doc) ==
    LET value == JIndex(JIndex(doc, "result"), "value")
    IN  value.t = "arr" /\ Len(value.a) >= 1

\* result.value[0].status is the string "Landed".
IsLanded(doc) == JIndex(StatusRecord(doc), "status") = JStr("Landed")

\* result.value[0].confirmation_status is the string s.
HasConfirmation(doc, s) ==
    HasStatusRecord(doc) /\ JIndex(StatusRecord(doc), "confirmation_status") = JStr(s)

\* The status record carries an err value whose Ok sub-field is not null.
HasExecutionError(doc) ==
    LET err == JIndex(StatusRecord(doc), "err")
    IN  err.t = "obj" /\ "Ok" \in DOMAIN err.o /\ err.o["Ok"].t # "null"

\* C1: in phase 1 every in-flight response that is not "Landed" and is not
\* the last of the 30 attempts leaves jito_request polling (still in phase 1,
\* nothing returned, one more poll counted); a "Landed" response at attempt k
\* moves it to phase 2 with exactly k in-flight polls made, and once phase 1
\* is left no in-flight poll is ever made again.
C1_InFlightPolling ==
    [][ /\ (/\ jpc = "inflight"
            /\ jlast'[1].ok
            /\ ~IsLanded(jlast'[1].v)
            /\ inflight_polls + 1 < 30)
           => (/\ jpc' = "inflight_sleep"
               /\ jresult' = ""
               /\ inflight_polls' = inflight_polls + 1
               /\ final_polls' = 0)
        /\ (jpc = "inflight_sleep")
           => (/\ jpc' = "inflight"
               /\ jresult' = ""
               /\ inflight_polls' = inflight_polls
               /\ final_polls' = 0)
        /\ (/\ jpc = "inflight"
            /\ jlast'[1].ok
            /\ IsLanded(jlast'[1].v))
           => (/\ jpc' = "final"
               /\ jresult' = ""
               /\ inflight_polls' = inflight_polls + 1
               /\ inflight_polls' <= 30
               /\ final_polls' = 0)
        /\ (jpc \in {"final", "final_sleep", "done"}) => (inflight_polls' = inflight_polls)
        /\ (jpc' = "final" /\ jpc \notin {"final", "final_sleep"})
           => (jpc = "inflight" /\ IsLanded(jlast'[1].v))
      ]_vars

\* Pending, Pending, Landed: phase 2 is entered after exactly 3 in-flight polls.
C1_Witness ==
    /\ jpc = "final"
    /\ inflight_polls = 3
    /\ inflight_sleeps = 2
    /\ final_polls = 0
    /\ IsLanded(jlast[1].v)

\* C2: when the 30th in-flight poll also returns a response that is not
\* "Landed", jito_request returns "Failed to confirm bundle status after 30
\* attempts"; that failure is returned only after exactly 30 in-flight polls,
\* with no final-status query made, and none is made afterwards.
C2_InFlightExhausted ==
    [][ /\ (/\ jpc = "inflight"
            /\ inflight_polls = 29
            /\ jlast'[1].ok
            /\ ~IsLanded(jlast'[1].v))
           => (/\ jpc' = "done"
               /\ jresult' = "Failed to confirm bundle status after 30 attempts"
               /\ inflight_polls' = 30
               /\ final_polls' = 0)
        /\ (jresult' = "Failed to confirm bundle status after 30 attempts")
           => (/\ jpc' = "done"
               /\ inflight_polls' = 30
               /\ final_polls' = 0)
        /\ (jpc = "done") => UNCHANGED << inflight_polls, final_polls >>
      ]_vars

C2_Witness ==
    /\ jpc = "done"
    /\ jresult = "Failed to confirm bundle status after 30 attempts"
    /\ inflight_polls = 30
    /\ inflight_sleeps = 29
    /\ final_polls = 0

\* C3: in phase 2 a "confirmed" status without an execution error never
\* makes check_final_bundle_status return by itself (before the 30th attempt
\* polling goes on, at the 30th only the attempt ceiling ends it); the first
\* "finalized" status without an execution error returns success, success is
\* returned for nothing else, and no poll follows it.
C3_FinalPolling ==
    [][ /\ (/\ jpc = "final"
            /\ jlast'[1].ok
            /\ HasConfirmation(jlast'[1].v, "confirmed")
            /\ ~HasExecutionError(jlast'[1].v))
           => IF final_polls + 1 < 30
              THEN jpc' = "final_sleep" /\ jresult' = "" /\ final_polls' = final_polls + 1
              ELSE jresult' = "Failed to get finalized status after 30 attempts"
        /\ (jpc = "final_sleep")
           => (jpc' = "final" /\ jresult' = "" /\ final_polls' = final_polls)
        /\ (/\ jpc = "final"
            /\ jlast'[1].ok
            /\ HasConfirmation(jlast'[1].v, "finalized")
            /\ ~HasExecutionError(jlast'[1].v))
           => (jpc' = "done" /\ jresult' = "Ok" /\ final_polls' = final_polls + 1)
        /\ (jresult' = "Ok")
           => (/\ jpc = "final"
               /\ jpc' = "done"
               /\ HasConfirmation(jlast'[1].v, "finalized")
               /\ ~HasExecutionError(jlast'[1].v))
        /\ (jresult = "Ok") => UNCHANGED << inflight_polls, final_polls >>
      ]_vars

\* confirmed, finalized: success at the second final-status poll.
C3_Witness ==
    /\ jresult = "Ok"
    /\ final_polls = 2
    /\ final_sleeps = 1
    /\ jlog = Some("Transaction URL: https://solscan.io/tx/sigA")

\* C4: a "confirmed" or "finalized" status whose err value has a non-null Ok
\* sub-field makes check_final_bundle_status return "Transaction encountered
\* an error" at that very attempt; no poll follows, and success is never
\* returned for a status carrying such an error.
C4_ExecutionError ==
    [][ /\ (/\ jpc = "final"
            /\ jlast'[1].ok
            /\ (\/ HasConfirmation(jlast'[1].v, "confirmed")
                \/ HasConfirmation(jlast'[1].v, "finalized"))
            /\ HasExecutionError(jlast'[1].v))
           => (/\ jpc' = "done"
               /\ jresult' = "Transaction encountered an error"
               /\ final_polls' = final_polls + 1
               /\ final_sleeps' = final_sleeps)
        /\ (jresult = "Transaction encountered an error")
           => UNCHANGED << inflight_polls, final_polls >>
        /\ (jresult' = "Ok") => ~HasExecutionError(jlast'[1].v)
      ]_vars

\* The failure is returned at the "confirmed" stage, at the first final poll.
C4_Witness ==
    /\ jresult = "Transaction encountered an error"
    /\ final_polls = 1
    /\ HasConfirmation(jlast[1].v, "confirmed")
    /\ HasExecutionError(jlast[1].v)

\* C5: when a final-status poll returns a response that is not "finalized"
\* (and is not a "confirmed" one with an execution error), the call ends on it
\* only at the 30th poll and then with "Failed to get finalized status after 30
\* attempts"; that failure is returned only after exactly 30 final polls.
\* The code ends the call earlier, with "Failed to parse bundle status", on a
\* response that has no status record at result.value[0].
C5_FinalExhausted ==
    [][ /\ (/\ jpc = "final"
            /\ final_polls = 29
            /\ jlast'[1].ok
            /\ ~HasConfirmation(jlast'[1].v, "finalized")
            /\ ~(HasConfirmation(jlast'[1].v, "confirmed")
                 /\ HasExecutionError(jlast'[1].v)))
           => (/\ jpc' = "done"
               /\ jresult' = "Failed to get finalized status after 30 attempts"
               /\ final_polls' = 30)
        /\ (/\ jpc = "final"
            /\ jpc' = "done"
            /\ jlast'[1].ok
            /\ ~HasConfirmation(jlast'[1].v, "finalized")
            /\ ~(HasConfirmation(jlast'[1].v, "confirmed")
                 /\ HasExecutionError(jlast'[1].v)))
           => (/\ jresult' = "Failed to get finalized status after 30 attempts"
               /\ final_polls' = 30)
        /\ (jresult' = "Failed to get finalized status after 30 attempts")
           => (jpc' = "done" /\ final_polls' = 30)
        /\ (jpc = "done") => UNCHANGED << inflight_polls, final_polls >>
      ]_vars

\* The sendBundle response holds a string at "result".
HasStringResult(doc) ==
    doc.t = "obj" /\ "result" \in DOMAIN doc.o /\ doc.o["result"].t = "str"

\* C6: a sendBundle response without a string at "result" makes jito_request
\* return "Failed to get bundle UUID from response" with no in-flight and no
\* final-status poll made, then or later.
C6_NoBundleUuid ==
    [][ /\ (/\ jpc = "send"
            /\ jlast'[1].ok
            /\ ~HasStringResult(jlast'[1].v))
           => (/\ jpc' = "done"
               /\ jresult' = "Failed to get bundle UUID from response"
               /\ bundle_uuid' = None)
        /\ (jresult' = "Failed to get bundle UUID from response")
           => (jpc' = "done" /\ inflight_polls' = 0 /\ final_polls' = 0)
        /\ (jpc' \in {"inflight", "inflight_sleep", "final", "final_sleep"})
           => bundle_uuid' # None
      ]_vars

C6_Witness ==
    /\ jresult = "Failed to get bundle UUID from response"
    /\ jlast[1].ok
    /\ jlast[1].v = JObj([result |-> JNum(1)])
    /\ inflight_polls = 0
    /\ final_polls = 0

(***************************************************************************)
(* Properties of the engine.  The predicates below read the update being   *)
(* processed (cur) directly.                                               *)
(***************************************************************************)
\* The update being processed is a transaction update carrying a transaction.
TransactionUpdate ==
    /\ cur # None
    /\ cur[1].item = "message"
    /\ cur[1].oneof = "Transaction"
    /\ cur[1].info # None

\* The inner instructions of the update being processed, every group's in turn.
InnerOf(tx_info) ==
    IF tx_info.inner = None THEN << >>
    ELSE LET groups == tx_info.inner[1]
             total == IF Len(groups) = 0 THEN 0
                      ELSE IF Len(groups) = 1 THEN Len(groups[1])
                      ELSE Len(groups[1]) + Len(groups[2])
         IN  [ i \in 1 .. total |->
                 IF i <= Len(groups[1]) THEN groups[1][i]
                 ELSE groups[2][i - Len(groups[1])] ]

\* The payload decodes as one of the five kinds allow_sniper acts on.
Qualifies(data) ==
    /\ AmmInstruction_try_from(data).ok
    /\ AmmInstruction_try_from(data).variant \in
           { "SwapBaseIn", "SwapBaseOut", "SimulateInfo", "Deposit", "Withdraw" }

\* No candidate of the AMM decoder accepts the payload.
Unrecognized(data) == ~AmmInstruction_try_from(data).ok

\* The transaction, its message and its metadata are all present.
Convertible(tx_info) ==
    tx_info.has_transaction /\ tx_info.has_message /\ tx_info.has_meta

\* C7: for a transaction with a qualifying inner instruction, allow_sniper
\* returns success at the first one in document order, having decoded the
\* instructions up to that one and none after it.
C7_FirstQualifying ==
    (TransactionUpdate /\ Convertible(cur[1].info[1]))
    => LET ixs == InnerOf(cur[1].info[1])
           qualifying == { i \in 1 .. Len(ixs) : Qualifies(ixs[i]) }
       IN  qualifying # {}
           => /\ allow # None
              /\ allow[1].result = "Ok"
              /\ allow[1].decoded \in qualifying
              /\ \A i \in qualifying : allow[1].decoded <= i

\* C8: for a transaction whose inner instructions hold an unrecognized one
\* followed later by a qualifying one, allow_sniper returns success.
C8_UnrecognizedSkipped ==
    (TransactionUpdate /\ Convertible(cur[1].info[1]))
    => LET ixs == InnerOf(cur[1].info[1])
       IN  (\E i, j \in 1 .. Len(ixs) :
                i < j /\ Unrecognized(ixs[i]) /\ Qualifies(ixs[j]))
           => (allow # None /\ allow[1].result = "Ok")

\* C9: for a transaction without metadata, without inner instructions or with
\* no qualifying inner instruction, allow_sniper returns the failure
\* "Unexpected error" and no bundle call is made for the update.
C9_NoQualifyingFails ==
    TransactionUpdate
    => LET tx_info == cur[1].info[1]
           ixs == InnerOf(tx_info)
       IN  (\/ ~tx_info.has_meta
            \/ Len(ixs) = 0
            \/ \A i \in 1 .. Len(ixs) : ~Qualifies(ixs[i]))
           => /\ eresult # "panic"
              /\ allow # None
              /\ allow[1].result = "Unexpected error"
              /\ relay_calls = << >>
              /\ ebundle = << >>

\* A reply that makes send_bundle return an error: the tip-account query
\* failed, the tip account is not a public key, or sendBundle failed.
SubmissionFailed ==
    /\ elast' # None
    /\ \/ epc = "tip" /\ ~elast'[1].ok
       \/ epc = "tip" /\ elast'[1].ok /\ ~Pubkey_from_str(elast'[1].s)
       \/ epc = "send" /\ ~elast'[1].ok

\* C10: when the bundle submission of an update fails, the error is printed,
\* the run has no result yet, and the loop goes back to the stream for the
\* next update.
C10_BundleFailureContinues ==
    [][ /\ SubmissionFailed
           => (/\ epc' = "iter_end"
               /\ eresult' = ""
               /\ bundle_result' \notin { "", "Ok" }
               /\ bundle_errors' = bundle_errors + 1)
        /\ epc = "iter_end" => (epc' = "stream" /\ eresult' = "")
        /\ bundle_errors' # bundle_errors => SubmissionFailed
      ]_vars

\* A later update reached its own submission after an earlier one had failed.
C10_Witness ==
    /\ bundle_errors >= 1
    /\ TransactionUpdate
    /\ epc = "send"
    /\ eresult = ""

\* C11: the run does not end while a message of the stream is being
\* processed; whatever the update holds, the loop goes on.
C11_UpdateNeverEndsRun ==
    (cur # None /\ cur[1].item = "message") => (epc # "done" /\ eresult = "")

(***************************************************************************)
(* Properties of the instruction decoders.                                 *)
(***************************************************************************)
\* The union-level AMM decoder was called on the canonical encoding of a
\* payload value behind its opcode.
AmmDecodedEncoded == dpc = "amm" /\ din[1].tag # -1

\* The union-level AMM decoder was called on raw bytes.
AmmDecodedRaw == dpc = "amm" /\ din[1].tag = -1

\* C12: [opcode] followed by the canonical encoding of a payload value
\* decodes to the variant of that opcode with fields equal to the value.
C12_RoundTrip ==
    AmmDecodedEncoded
    => /\ dout[1].ok
       /\ dout[1].variant = AmmOpcodeTable[din[1].tag].variant
       /\ dout[1].v = din[1].value
       /\ BorshWrite(AmmOpcodeTable[din[1].tag].ty, dout[1].v) = Tail(din[1].data)

\* A SetParams payload with every optional field present was decoded.
C12_Witness ==
    /\ AmmDecodedEncoded
    /\ din[1].tag = 6
    /\ \A i \in 2 .. 5 : din[1].value[i] # None
    /\ Len(din[1].data) = 1 + 1 + 9 + 33 + 65 + 17
    /\ dout[1].ok
    /\ dout[1].variant = "SetParams"

\* "Not recognized", as the union-level AMM decoder reports it.
NotRecognized(result) ==
    ~result.ok /\ result.error = "failed to convert to target AmmInstruction"

\* C13: a payload that is empty or starts with 5, 15 or a byte above 16 is
\* not recognized by the union-level decoder, while the stand-alone
\* MigrateToOpenBook decoder accepts the one-byte payload [5].
C13_UnassignedOpcodes ==
    /\ (AmmDecodedRaw
        /\ (din[1].data = << >> \/ din[1].data[1] \in { 5, 15 } \/ din[1].data[1] > 16))
       => NotRecognized(dout[1])
    /\ dpc = "amm" => (dout[1].ok => dout[1].variant # "MigrateToOpenBook")
    /\ (dpc = "migrate" /\ din[1].data = << 5 >>) => dout[1].ok

\* The union-level decoder was handed [5] and did not recognize it.
C13_Witness ==
    /\ AmmDecodedRaw
    /\ din[1].data = << 5 >>
    /\ NotRecognized(dout[1])

\* The candidates, in the order tried, that accept the payload.
Accepting(data) ==
    { i \in 1 .. Len(AmmCandidates) : candidate_try_from(AmmCandidates[i], data).ok }

\* C14: at most one candidate accepts a payload, no two candidates compare
\* with the same opcode, and the union returns the variant of the one
\* candidate that accepts, whatever its place in the order.
C14_OneCandidate ==
    /\ \A i, j \in 1 .. Len(AmmCandidates) :
           AmmCandidates[i].index = AmmCandidates[j].index => i = j
    /\ dpc = "amm"
       => /\ Cardinality(Accepting(din[1].data)) <= 1
          /\ dout[1].ok <=> Accepting(din[1].data) # { }
          /\ \A i \in Accepting(din[1].data) :
                 dout[1].variant = AmmCandidates[i].variant

\* The last candidate tried was the one that accepted.
C14_Witness ==
    /\ dpc = "amm"
    /\ Accepting(din[1].data) = { Len(AmmCandidates) }
    /\ dout[1].ok
    /\ dout[1].variant = "WithdrawPnl"

\* The variants of TargetEvent an event of a kind is surfaced as.
TargetVariants(kind) ==
    CASE kind = "Create" -> { "PumpfunCreate" }
      [] kind = "Complete" -> { "PumpfunComplete" }
      [] kind = "Trade" -> { "PumpfunBuy", "PumpfunSell" }

\* C15: the event decoder returns the event when the payload is longer than
\* 16 bytes, carries a discriminator at 8..16 and a valid encoding of that
\* event behind it; it returns an event in no other case, and payloads of 16
\* bytes or fewer or without a discriminator are not recognized.
C15_EventDecoder ==
    dpc = "pumpfun"
    => LET ix == din[1]
           result == dout[1]
           discriminators ==
               { PUMPFUN_CREATE_EVENT, PUMPFUN_COMPLETE_EVENT, PUMPFUN_TRADE_EVENT }
       IN  /\ ix.mangle = "none"
              => /\ result.ok
                 /\ result.variant \in TargetVariants(ix.kind)
                 /\ result.v = ix.value
           /\ ix.mangle # "none"
              => (~result.ok /\ result.error = "failed to convert to target tx")
           /\ result.ok
              => /\ Len(ix.data) > 16
                 /\ SubSeq(ix.data, 9, 16) \in discriminators
           /\ (Len(ix.data) <= 16 \/ SubSeq(ix.data, 9, 16) \notin discriminators)
              => ~result.ok

\* A Create event with a name of multi-byte characters was decoded.
C15_Witness ==
    /\ dpc = "pumpfun"
    /\ din[1].kind = "Create"
    /\ din[1].mangle = "none"
    /\ din[1].value[1] = << 240, 159, 154, 128, 33 >>
    /\ dout[1].ok
    /\ dout[1].variant = "PumpfunCreate"

\* C16: a Trade event is surfaced as PumpfunBuy when is_buy is true and as
\* PumpfunSell otherwise, and the payload that differs only in is_buy yields
\* the other variant with the same other fields.
C16_BuyOrSell ==
    (dpc = "pumpfun" /\ din[1].kind = "Trade" /\ din[1].mangle = "none")
    => LET value == din[1].value
           flipped_data == [din[1].data EXCEPT ![16 + 32 + 8 + 8 + 1] = 1 - @]
           flipped == TargetEvent_try_from(flipped_data)
       IN  /\ dout[1].ok
           /\ dout[1].variant = (IF value[4] THEN "PumpfunBuy" ELSE "PumpfunSell")
           /\ flipped.ok
           /\ flipped.variant = (IF value[4] THEN "PumpfunSell" ELSE "PumpfunBuy")
           /\ \A i \in 1 .. 10 : i # 4 => flipped.v[i] = dout[1].v[i]
           /\ flipped.v[4] = ~dout[1].v[4]

\* A Trade event with is_buy false was surfaced as PumpfunSell.
C16_Witness ==
    /\ dpc = "pumpfun"
    /\ din[1].kind = "Trade"
    /\ din[1].mangle = "none"
    /\ ~din[1].value[4]
    /\ dout[1].variant = "PumpfunSell"
    /\ dout[1].v[3] = 2147483647

(***************************************************************************)
(* Properties of the configuration and of key loading.                     *)
(***************************************************************************)
\* read_keypair_file was called without an explicit path.
ReadKeypairDefaulted ==
    /\ cout # None
    /\ cout[1].call = "read_keypair_file"
    /\ cout[1].explicit = None

\* ~/.config/solana/id.json
DefaultKeypairPath == home[1] \o "/.config/solana/id.json"

\* C17: called without an explicit path while KEYPAIR_FILE is set to a path
\* (and not resolved before), read_keypair_file loads the keypair from that
\* path, not the default one.
C17_KeyFileFromEnvironment ==
    (ReadKeypairDefaulted /\ "KEYPAIR_FILE" \in DOMAIN cout[1].env /\ cout[1].first)
    => /\ cout[1].outcome \in { "Ok", "Err" }
       /\ cout[1].value = cout[1].env["KEYPAIR_FILE"]
       /\ cout[1].value # DefaultKeypairPath

\* C18: called without an explicit path while KEYPAIR_FILE is unset,
\* read_keypair_file resolves the default path and returns the keypair or
\* the error "Failed to read keypair file"; the process is not aborted.
C18_DefaultPathWhenUnset ==
    (ReadKeypairDefaulted /\ "KEYPAIR_FILE" \notin DOMAIN cout[1].env)
    => /\ cpc # "panic"
       /\ cout[1].outcome \in { "Ok", "Err" }
       /\ cout[1].value = DefaultKeypairPath
       /\ cout[1].outcome = "Err" => cout[1].error = "Failed to read keypair file"

\* What a first access resolves a configuration value to.
Resolved(name, e) ==
    IF name \in DOMAIN e THEN e[name]
    ELSE IF name = "GRPC_ENDPOINT"
    THEN "https://solana-testnet-yellowstone-grpc.publicnode.com:443"
    ELSE "https://ny.testnet.block-engine.jito.wtf/api/v1"

\* C19: a configuration value is resolved from the environment at its first
\* access only: once resolved a cell never changes, and every later read
\* returns the value it holds, whatever the environment has become.
C19_ResolvedOnce ==
    [][ /\ GRPC_ENDPOINT # None => GRPC_ENDPOINT' = GRPC_ENDPOINT
        /\ JITO_RPC_ENDPOINT # None => JITO_RPC_ENDPOINT' = JITO_RPC_ENDPOINT
        /\ KEYPAIR_FILE # None => KEYPAIR_FILE' = KEYPAIR_FILE
        /\ (cout' # cout /\ cout'[1].call = "GRPC_ENDPOINT")
           => /\ GRPC_ENDPOINT' = Some(cout'[1].value)
              /\ GRPC_ENDPOINT = None => cout'[1].value = Resolved("GRPC_ENDPOINT", env)
        /\ (cout' # cout /\ cout'[1].call = "JITO_RPC_ENDPOINT")
           => /\ JITO_RPC_ENDPOINT' = Some(cout'[1].value)
              /\ JITO_RPC_ENDPOINT = None
                 => cout'[1].value = Resolved("JITO_RPC_ENDPOINT", env)
        /\ (cout' # cout /\ cout'[1].call = "KEYPAIR_FILE" /\ cout'[1].outcome = "Ok")
           => /\ KEYPAIR_FILE' = Some(cout'[1].value)
              /\ KEYPAIR_FILE = None => cout'[1].value = env["KEYPAIR_FILE"]
      ]_vars

\* A read after the first access returned the value resolved then, although
\* the variable had been set to another value in between.
C19_Witness ==
    /\ cout # None
    /\ cout[1].call = "GRPC_ENDPOINT"
    /\ ~cout[1].first
    /\ "GRPC_ENDPOINT" \in DOMAIN cout[1].env
    /\ cout[1].value # cout[1].env["GRPC_ENDPOINT"]
    /\ GRPC_ENDPOINT = Some(cout[1].value)

(***************************************************************************)
(* Properties of the engine's transactions.                                *)
(***************************************************************************)
\* C20: the recent blockhash is fetched once, at the blockhash step and
\* before the subscription is opened, never again; the transfer and the tip
\* transaction built for any update are signed against it, so both
\* transactions of every bundle handed to the relay share it.
C20_OneBlockhash ==
    [][ /\ recent_blockhash' # recent_blockhash
           => (epc = "blockhash" /\ recent_blockhash = None)
        /\ epc' \in { "subscribe", "stream", "tip", "send", "iter_end" }
           => recent_blockhash' # None
        /\ etransfer' # None => etransfer'[1].blockhash = recent_blockhash'[1]
        /\ ebundle' # << >>
           => /\ Len(ebundle') >= 1
              /\ \A i \in 1 .. Len(ebundle') :
                     ebundle'[i].blockhash = recent_blockhash'[1]
      ]_vars

\* The bundle of a second update was handed to the relay, both transactions
\* signed against the blockhash fetched at the start of the run.
C20_Witness ==
    /\ epc = "send"
    /\ updates >= 2
    /\ recent_blockhash = Some("hashB")
    /\ Len(ebundle) = 2
    /\ ebundle[1].blockhash = "hashB"
    /\ ebundle[2].blockhash = "hashB"

(***************************************************************************)
(* Properties of the engine's loop.                                        *)
(***************************************************************************)
\* C21: an update is taken from the stream only when no update is being
\* processed and no relay call is outstanding; the update being processed
\* is dropped only at the end of the loop body; a relay call is made only
\* once the reply of the one before it has arrived.
C21_OneUpdateAtATime ==
    [][ /\ updates' # updates
           => /\ updates' = updates + 1
              /\ epc = "stream"
              /\ cur = None
              /\ relay_calls = << >>
              /\ cur' # None
        /\ (cur # None /\ cur' # cur) => (epc = "iter_end" /\ cur' = None)
        /\ (cur # None /\ epc' = "stream") => epc = "iter_end"
        /\ Len(relay_calls') <= 2
        /\ Len(relay_calls') = 2
           => (relay_calls' = << "getRandomTipAccount", "sendBundle" >>
               /\ elast' # None)
        /\ (Len(relay_calls') = 2 /\ Len(relay_calls) # 2)
           => (relay_calls = << "getRandomTipAccount" >> /\ epc = "tip" /\ elast'[1].ok)
      ]_vars

\* The third update is in its sendBundle round trip, the two before it
\* processed to their end, one of them with a failed submission.
C21_Witness ==
    /\ updates = 3
    /\ epc = "send"
    /\ relay_calls = << "getRandomTipAccount", "sendBundle" >>
    /\ bundle_errors = 1
    /\ TransactionUpdate

(***************************************************************************)
(* Further properties of the bundle submission module.                     *)
(***************************************************************************)
\* The last relay reply was a final-status response, before the 30th attempt.
FinalResponseBeforeCeiling ==
    /\ final_polls >= 1
    /\ final_polls < 30
    /\ jlast # None
    /\ jlast[1].ok

\* C22: in phase 2 a response that yields neither "confirmed" nor
\* "finalized" (another status, no string, no status record) before the
\* 30th attempt leaves check_final_bundle_status polling.
C22_FinalNonTerminalContinues ==
    (/\ FinalResponseBeforeCeiling
     /\ ~HasConfirmation(jlast[1].v, "confirmed")
     /\ ~HasConfirmation(jlast[1].v, "finalized"))
    => (jpc \in { "final", "final_sleep" } /\ jresult = "")

\* The last relay reply was a final-status response whose status record is
\* "confirmed" or "finalized": the execution-error check ran on it.
ErrorCheckRan ==
    /\ final_polls >= 1
    /\ jlast # None
    /\ jlast[1].ok
    /\ (\/ HasConfirmation(jlast[1].v, "confirmed")
        \/ HasConfirmation(jlast[1].v, "finalized"))

\* C23: the execution-error check reports an error exactly when the status
\* record has an err value whose Ok sub-field is not null; a record without
\* an err key, with err = null or with an err object lacking Ok passes it.
C23_ErrorCheck ==
    ErrorCheckRan
    => LET record == StatusRecord(jlast[1].v)
           err == JGet(record, "err")
           reported == jresult = "Transaction encountered an error"
       IN  /\ reported
              <=> (/\ err # None
                   /\ err[1].t = "obj"
                   /\ "Ok" \in DOMAIN err[1].o
                   /\ err[1].o["Ok"] # JNull)
           /\ err = None => ~reported
           /\ (err # None /\ err[1] = JNull) => ~reported
           /\ (err # None /\ err[1].t = "obj" /\ "Ok" \notin DOMAIN err[1].o) => ~reported
           /\ (~reported /\ HasConfirmation(jlast[1].v, "finalized")) => jresult = "Ok"

\* A "confirmed" record whose err is {"Err": ..} passed the check: polling
\* goes on.
C23_Witness ==
    /\ ErrorCheckRan
    /\ JGet(StatusRecord(jlast[1].v), "err") = Some(JObj([Err |-> JStr("InstructionError")]))
    /\ jpc = "final_sleep"
    /\ jresult = ""
    /\ final_polls = 1

\* The last relay reply answered a status poll, carried a JSON "error" field,
\* and its phase had attempts left.
ErrorFieldBeforeCeiling ==
    /\ inflight_polls >= 1
    /\ jlast # None
    /\ jlast[1].ok
    /\ JGet(jlast[1].v, "error") # None
    /\ IF final_polls >= 1 THEN final_polls < 30 ELSE inflight_polls < 30

\* C24: a transport failure of any relay call of jito_request ends it at once
\* with that failure, whereas a JSON response carrying an error field does
\* not abort polling.
C24_TransportFailureEnds ==
    /\ (jlast # None /\ ~jlast[1].ok) => (jpc = "done" /\ jresult = TransportError)
    /\ jresult = TransportError => (jlast # None /\ ~jlast[1].ok)
    /\ ErrorFieldBeforeCeiling => jpc # "done"

\* The delays taken so far in a phase: one after each attempt that was
\* followed by another attempt of the same phase.
DelaysBetweenAttempts(polls, sleeps, phase) ==
    sleeps = IF jpc = phase THEN polls
             ELSE IF polls = 0 THEN 0 ELSE polls - 1

\* C25: jito_request terminates on every sequence of relay responses, after
\* at most 30 in-flight polls followed by at most 30 final-status polls; the
\* phase-2 budget does not depend on the attempts phase 1 used, phase 1 is
\* never resumed once phase 2 has started, and a delay is taken only between
\* two consecutive attempts of the same phase.
C25_Termination ==
    /\ <>(jpc = "done")
    /\ [](/\ inflight_polls \in 0 .. 30
          /\ final_polls \in 0 .. 30
          /\ (jpc = "inflight" => inflight_polls < 30)
          /\ (jpc = "final" => final_polls < 30 /\ inflight_polls >= 1)
          /\ (jpc = "inflight_sleep"
              => /\ inflight_polls \in 1 .. 29
                 /\ final_polls = 0
                 /\ jlast[1].ok
                 /\ ~IsLanded(jlast[1].v))
          /\ (jpc = "final_sleep"
              => /\ final_polls \in 1 .. 29
                 /\ jlast[1].ok
                 /\ ~HasConfirmation(jlast[1].v, "finalized")
                 /\ ~(HasConfirmation(jlast[1].v, "confirmed")
                      /\ HasExecutionError(jlast[1].v)))
          /\ (final_polls >= 1 => inflight_polls >= 1)
          /\ DelaysBetweenAttempts(inflight_polls, inflight_sleeps, "inflight")
          /\ DelaysBetweenAttempts(final_polls, final_sleeps, "final"))
    /\ [][/\ (jpc \in { "final", "final_sleep" } \/ final_polls >= 1)
             => (jpc' \notin { "inflight", "inflight_sleep" }
                 /\ inflight_polls' = inflight_polls
                 /\ inflight_sleeps' = inflight_sleeps)
          /\ jpc = "done" => jpc' = "done"
          /\ inflight_sleeps' # inflight_sleeps
             => (/\ jpc = "inflight_sleep"
                 /\ jpc' = "inflight"
                 /\ inflight_sleeps' = inflight_sleeps + 1)
          /\ final_sleeps' # final_sleeps
             => (/\ jpc = "final_sleep"
                 /\ jpc' = "final"
                 /\ final_sleeps' = final_sleeps + 1)
          /\ (jpc = "done" /\ jpc' = "done") => UNCHANGED << inflight_polls, final_polls >>]_vars

\* Phase 1 used all 30 attempts, the 30th answered Landed, and phase 2 then
\* used 30 attempts of its own: 29 delays in each phase.
C25_Witness ==
    /\ jpc = "done"
    /\ inflight_polls = 30
    /\ final_polls = 30
    /\ inflight_sleeps = 29
    /\ final_sleeps = 29
    /\ jresult = "Failed to get finalized status after 30 attempts"

\* The number of sendBundle calls among the relay calls of the current update.
SendBundleCalls == Cardinality({ i \in 1 .. Len(relay_calls) : relay_calls[i] = "sendBundle" })

\* C26: the engine calls the relay only while processing a Transaction update
\* that carries a transaction and for which allow_sniper returned success;
\* any other update causes no relay call, and at most one sendBundle call is
\* made per update.
C26_RelayOnlyForAllowed ==
    /\ relay_calls # << >>
       => /\ TransactionUpdate
          /\ allow # None
          /\ allow[1].result = "Ok"
          /\ relay_calls[1] = "getRandomTipAccount"
    /\ (cur # None /\ ~TransactionUpdate) => (relay_calls = << >> /\ epc \notin { "tip", "send" })
    /\ (allow # None /\ allow[1].result # "Ok") => (relay_calls = << >> /\ epc \notin { "tip", "send" })
    /\ epc \in { "tip", "send" } => relay_calls # << >>
    /\ SendBundleCalls <= 1

\* A Transaction update whose allow_sniper failed reached the end of the
\* loop body with no relay call made, after an earlier update was submitted.
C26_Witness ==
    /\ epc = "iter_end"
    /\ TransactionUpdate
    /\ allow # None
    /\ allow[1].result # "Ok"
    /\ relay_calls = << >>
    /\ updates >= 2
    /\ bundle_errors >= 1

\* C27: run ends only when establishing the connection, the initial blockhash
\* fetch or the subscription stream yields an error; it never returns
\* without an error.
C27_RunEndsOnlyOnError ==
    epc = "done"
    => /\ eresult # "Ok"
       /\ cur # None => cur[1].item = "error"

(***************************************************************************)
(* Properties of the bundles handed to the relay.                          *)
(***************************************************************************)
\* The transaction is a single system transfer of the given amount.
SingleTransfer(tx, lamports) ==
    /\ Len(tx.instructions) = 1
    /\ tx.instructions[1].program = "system"
    /\ tx.instructions[1].lamports = lamports

\* The accounts the relay names as tip accounts.
ValidTipAccounts == { a.name : a \in { t \in TipAccountStrings : t.bytes = 32 } }

\* C28: every bundle sent to the relay is exactly two transactions, the tip
\* transaction first: the engine sends [tip of 12345, transfer of 52345] and
\* jito_request sends [tip of 123456, second transfer of 4404]; the memo
\* transaction and the reconstructed original are never in a bundle.
C28_BundleShape ==
    /\ relay_calls # << >> /\ relay_calls[Len(relay_calls)] = "sendBundle"
       => /\ Len(ebundle) = 2
          /\ SingleTransfer(ebundle[1], 12345)
          /\ ebundle[1].instructions[1].to \in ValidTipAccounts
          /\ SingleTransfer(ebundle[2], 52345)
          /\ ebundle[2].instructions[1].to = "89ab91UYbFj8KBJUv1FYgLNzAwaDXdDpE8D4i8vnRy4J"
          /\ ebundle[2] = etransfer[1]
    /\ ebundle # << >> => (relay_calls # << >> /\ relay_calls[Len(relay_calls)] = "sendBundle")
    /\ jpc \in { "send", "inflight", "inflight_sleep", "final", "final_sleep" }
       \/ bundle_uuid # None
       => /\ Len(jbundle) = 2
          /\ SingleTransfer(jbundle[1], 123456)
          /\ jbundle[1].instructions[1].to \in ValidTipAccounts
          /\ SingleTransfer(jbundle[2], 4404)
          /\ jbundle[2].instructions[1].to = "89ab91UYbFj8KBJUv1FYgLNzAwaDXdDpE8D4i8vnRy4J"
          /\ Len(jbuilt) = 3
          /\ Len(jbuilt[2].instructions) = 2
          /\ \A i \in 1 .. Len(jbundle) : jbundle[i] # jbuilt[2]
    /\ jbundle # << >> => jpc \notin { "enter", "tip" }

\* The engine's bundle is with the relay, for an update whose original
\* transaction was reconstructed.
C28_Witness ==
    /\ epc = "send"
    /\ TransactionUpdate
    /\ parsed_tx(cur[1].info[1]) = "Ok"
    /\ Len(ebundle) = 2
    /\ ebundle[1].instructions[1].lamports = 12345
    /\ ebundle[2].instructions[1].lamports = 52345

(***************************************************************************)
(* Further properties of the AMM decoder.                                  *)
(***************************************************************************)
\* C29: a payload that starts with an assigned opcode but whose remaining
\* bytes are truncated, carry trailing bytes or are otherwise no valid
\* encoding of that opcode's payload (for 7 and 14: anything longer than one
\* byte) is not recognized by the union-level decoder, with the error it
\* returns for an unassigned opcode.
C29_BadPayloadNotRecognized ==
    /\ dpc = "amm_mangled"
       => /\ din[1].data[1] = din[1].tag
          /\ din[1].tag \in DOMAIN AmmOpcodeTable
          /\ NotRecognized(dout[1])
          /\ dout[1] = AmmInstruction_try_from(<< 5 >>)
          /\ dout[1] = AmmInstruction_try_from(<< 15, 0 >>)
    /\ (AmmDecodedRaw /\ Len(din[1].data) > 1 /\ din[1].data[1] \in { 7, 14 })
       => (NotRecognized(dout[1]) /\ dout[1] = AmmInstruction_try_from(<< 5 >>))
    /\ (AmmDecodedRaw /\ Len(din[1].data) = 1 /\ din[1].data[1] \in { 7, 14 })
       => dout[1].ok

\* A Deposit payload followed by one more byte was not recognized.
C29_Witness ==
    /\ dpc = "amm_mangled"
    /\ din[1].tag = 3
    /\ din[1].mangle = "trailing"
    /\ Len(din[1].data) > 1 + 24 + 1
    /\ NotRecognized(dout[1])

(***************************************************************************)
(* Properties of lock().                                                   *)
(***************************************************************************)
\* The workers whose increment has been written.
Incremented == { w \in Workers : wpc[w] \in { "stored", "done" } }

\* The workers inside the critical section.
InCriticalSection == { w \in Workers : wpc[w] \in { "locked", "loaded", "stored" } }

\* C30: under every interleaving each of the 10 workers increments the
\* counter exactly once and no update is lost, every worker has been joined
\* before the final read, and the value printed is 10.
C30_CounterIsTen ==
    /\ Cardinality(Workers) = 10
    /\ counter = Cardinality(Incremented)
    /\ Cardinality(InCriticalSection) <= 1
    /\ \A w \in InCriticalSection : owner = w
    /\ lpc \in { "print", "done" }
       => /\ joined = 10
          /\ \A w \in Workers : wpc[w] = "done"
          /\ counter = 10
    /\ lprinted # None => (lprinted = Some(10) /\ lpc = "done")
    /\ lpc = "done" => lprinted = Some(10)

\* The ten workers were joined and the total was printed.
C30_Witness ==
    /\ lpc = "done"
    /\ joined = 10
    /\ counter = 10
    /\ lprinted = Some(10)

=============================================================================
